---- MODULE Spec2Model ----
(***************************************************************************)
(* Retrieval core of pokeprof-notebook: the indexer (index_document,       *)
(* save_tree, load_tree) and the retriever (search, resolve_cross_         *)
(* references, search_multi).                                              *)
(*                                                                         *)
(* Python strings are sequences of one-character strings, so that          *)
(* lower(), split(), strip(), slicing, substring tests and the regular     *)
(* expressions are computed character by character.                        *)
(***************************************************************************)
EXTENDS Integers, Sequences, FiniteSets, TLC

VARIABLES
    \* save_tree / load_tree (indexer.py): the directory of the index file, the
    \* running save_tree calls, the last load_tree result, who last renamed
    fs, sv, loaded, previous,
    \* resolve_cross_references (retriever.py): arguments, position, result
    x_sections, x_index, x_max, xpc, x_ret,
    \* search_multi (retriever.py): arguments, position in the loops, lists
    m_query, m_indexes, m_max, m_weights, m_cards, mpc, m_k, m_results, all_results,
    m_pending, m_ret,
    \* search (retriever.py): inputs, the locals of _search_with_llm, the outcome
    s_query, s_index, s_max, use_llm, frontier, visited, results, spc, exc, ret,
    last_oracle, fell_back, fallback_leaf, expanded,
    \* router.py: the card-name index and the classification cache of the
    \* process, the last call made and what came of it
    card_index, llm_cache, calls, r_call, r_ret,
    \* ingest (cli.py): the documents of the run (markdown, index file before
    \* and now, what was done), --force, the loop position, how the run ended
    g_docs, g_force, g_k, gpc, g_exc,
    \* annotate_sections (overlay.py): the arguments, whether it was called, the
    \* list returned
    o_sections, o_manifest, o_query, opc, o_ret,
    \* _get_card_name_index (router.py) called from worker threads: the version
    \* of card_name_index.json on disk, the two module globals, and for each
    \* thread its position, its locals and the calls it has finished
    index_file, card_name_index, card_name_index_mtime, tpc, current_mtime, loaded_index,
    finished,
    \* _async_iter_in_thread (server.py): the synchronous generator and how far
    \* it has run, the producer thread's position and current item, the
    \* callbacks scheduled on the loop with call_soon_threadsafe, the queue, the
    \* cancel event, the consumer's position, what it took from the queue and
    \* what it was given
    sync_gen, gen_pos, ppc, item, callbacks, queue, cancel, cpc, got, delivered,
    \* index_document (indexer.py)
    md, ixpos, nodes, stack, current_node, content_parts, seen_ids, ixpc, total_tokens

searchVars == <<s_query, s_index, s_max, use_llm, frontier, visited, results, spc, exc,
               ret, last_oracle, fell_back, fallback_leaf, expanded>>

vars == <<md, ixpos, nodes, stack, current_node, content_parts, seen_ids, ixpc, total_tokens,
          searchVars, fs, sv, loaded, previous, x_sections, x_index, x_max, xpc, x_ret,
          m_query, m_indexes, m_max, m_weights, m_cards, mpc, m_k, m_results, all_results,
          m_pending, m_ret, card_index, llm_cache, calls, r_call, r_ret,
          g_docs, g_force, g_k, gpc, g_exc, o_sections, o_manifest, o_query, opc, o_ret,
          index_file, card_name_index, card_name_index_mtime, tpc, current_mtime,
          loaded_index, finished,
          sync_gen, gen_pos, ppc, item, callbacks, queue, cancel, cpc, got, delivered>>

\* the state of every operation other than op, at rest
AtRest(op) ==
    /\ IF op \in {"index", "ingest"} THEN TRUE
       ELSE /\ md = <<>> /\ ixpos = 0 /\ nodes = <<>> /\ stack = <<>> /\ current_node = 0
            /\ content_parts = <<>> /\ seen_ids = {} /\ ixpc = "idle" /\ total_tokens = 0
    /\ IF op \in {"search", "multi"} THEN TRUE
       ELSE /\ s_query = <<>> /\ s_index = <<>> /\ s_max = 0 /\ use_llm = FALSE
            /\ frontier = <<>> /\ visited = {} /\ results = <<>> /\ spc = "idle"
            /\ exc = "none" /\ ret = <<>> /\ last_oracle = <<>> /\ fell_back = FALSE
            /\ fallback_leaf = FALSE /\ expanded = <<>>
    /\ IF op = "store" THEN TRUE
       ELSE fs = <<>> /\ sv = <<>> /\ loaded = <<>> /\ previous = <<>>
    /\ IF op = "xref" THEN TRUE
       ELSE /\ x_sections = <<>> /\ x_index = <<>> /\ x_max = 0 /\ xpc = "idle"
            /\ x_ret = <<>>
    /\ IF op = "multi" THEN TRUE
       ELSE /\ m_query = <<>> /\ m_indexes = <<>> /\ m_max = 0 /\ m_weights = <<>>
            /\ m_cards = <<>> /\ mpc = "idle" /\ m_k = 0 /\ m_results = <<>>
            /\ all_results = <<>> /\ m_pending = {} /\ m_ret = <<>>
    /\ IF op = "router" THEN TRUE
       ELSE /\ card_index = <<>> /\ llm_cache = <<>> /\ calls = 0 /\ r_call = <<>>
            /\ r_ret = <<>>
    /\ IF op = "ingest" THEN TRUE
       ELSE /\ g_docs = <<>> /\ g_force = FALSE /\ g_k = 0 /\ gpc = "idle"
            /\ g_exc = "none"
    /\ IF op = "overlay" THEN TRUE
       ELSE /\ o_sections = <<>> /\ o_manifest = <<>> /\ o_query = <<>> /\ opc = "idle"
            /\ o_ret = <<>>
    /\ IF op = "cache" THEN TRUE
       ELSE /\ index_file = 0 /\ card_name_index = <<>> /\ card_name_index_mtime = 0
            /\ tpc = <<>> /\ current_mtime = <<>> /\ loaded_index = <<>>
            /\ finished = <<>>
    /\ IF op = "bridge" THEN TRUE
       ELSE /\ sync_gen = <<>> /\ gen_pos = 0 /\ ppc = "idle" /\ item = "" /\ callbacks = <<>>
            /\ queue = <<>> /\ cancel = FALSE /\ cpc = "idle" /\ got = <<>>
            /\ delivered = <<>>

\* the operations other than op leave their state alone
Frame(op) ==
    /\ IF op \in {"index", "ingest"} THEN TRUE
       ELSE UNCHANGED <<md, ixpos, nodes, stack, current_node, content_parts, seen_ids,
                        ixpc, total_tokens>>
    /\ IF op \in {"search", "multi"} THEN TRUE ELSE UNCHANGED searchVars
    /\ IF op = "store" THEN TRUE ELSE UNCHANGED <<fs, sv, loaded, previous>>
    /\ IF op = "xref" THEN TRUE ELSE UNCHANGED <<x_sections, x_index, x_max, xpc, x_ret>>
    /\ IF op = "multi" THEN TRUE
       ELSE UNCHANGED <<m_query, m_indexes, m_max, m_weights, m_cards, mpc, m_k, m_results,
                        all_results, m_pending, m_ret>>
    /\ IF op = "router" THEN TRUE
       ELSE UNCHANGED <<card_index, llm_cache, calls, r_call, r_ret>>
    /\ IF op = "ingest" THEN TRUE ELSE UNCHANGED <<g_docs, g_force, g_k, gpc, g_exc>>
    /\ IF op = "overlay" THEN TRUE
       ELSE UNCHANGED <<o_sections, o_manifest, o_query, opc, o_ret>>
    /\ IF op = "cache" THEN TRUE
       ELSE UNCHANGED <<index_file, card_name_index, card_name_index_mtime, tpc,
                        current_mtime, loaded_index, finished>>
    /\ IF op = "bridge" THEN TRUE
       ELSE UNCHANGED <<sync_gen, gen_pos, ppc, item, callbacks, queue, cancel, cpc, got,
                        delivered>>

-----------------------------------------------------------------------------
(* Characters and the str methods the code uses *)

DigitSeq == <<"0", "1", "2", "3", "4", "5", "6", "7", "8", "9">>

Digits == {DigitSeq[i] : i \in DOMAIN DigitSeq}

\* str.lower() on one character: the upper-case letters and their lower case
ToLower ==
    [A |-> "a", B |-> "b", C |-> "c", D |-> "d", E |-> "e", F |-> "f", G |-> "g",
     H |-> "h", I |-> "i", J |-> "j", K |-> "k", L |-> "l", M |-> "m", N |-> "n",
     O |-> "o", P |-> "p", Q |-> "q", R |-> "r", S |-> "s", T |-> "t", U |-> "u",
     V |-> "v", W |-> "w", X |-> "x", Y |-> "y", Z |-> "z"]

UpperAZ == DOMAIN ToLower

LowerAZ == {ToLower[c] : c \in UpperAZ}

Whitespace == {" ", "\t", "\n", "\r"}

\* str.lower()
Lower(s) ==
    [i \in DOMAIN s |->
        IF s[i] \in UpperAZ THEN ToLower[s[i]]
        ELSE s[i]]

\* a slice that cuts nothing off
KeepWhole(s, n) == s

\* s[:n]
Take(s, n) == SubSeq(s, 1, IF Len(s) < n THEN Len(s) ELSE n)

\* s[n:] with n counted from 1: the characters from position n on
From(s, n) == SubSeq(s, n, Len(s))

\* w in text: substring test
Contains(w, text) ==
    \E k \in 0..(Len(text) - Len(w)) : SubSeq(text, k + 1, k + Len(w)) = w

\* the first position >= p of s that holds no whitespace (Len(s)+1 when none)
RECURSIVE SkipSpaces(_, _)
SkipSpaces(s, p) ==
    IF p > Len(s) \/ s[p] \notin Whitespace THEN p ELSE SkipSpaces(s, p + 1)

\* the first position >= p of s that holds whitespace (Len(s)+1 when none)
RECURSIVE SkipWord(_, _)
SkipWord(s, p) ==
    IF p > Len(s) \/ s[p] \in Whitespace THEN p ELSE SkipWord(s, p + 1)

\* the last position <= p of s that holds no whitespace (0 when none)
RECURSIVE LastText(_, _)
LastText(s, p) ==
    IF p < 1 \/ s[p] \notin Whitespace THEN p ELSE LastText(s, p - 1)

\* str.strip(): leading and trailing whitespace removed
Strip(s) == SubSeq(s, SkipSpaces(s, 1), LastText(s, Len(s)))

\* str.split(): the whitespace-separated words, in order
RECURSIVE SplitFrom(_, _)
SplitFrom(s, p) ==
    LET b == SkipSpaces(s, p)
    IN  IF b > Len(s) THEN <<>>
        ELSE <<SubSeq(s, b, SkipWord(s, b) - 1)>> \o SplitFrom(s, SkipWord(s, b))

\* "\n".join(parts)
RECURSIVE JoinLines(_)
JoinLines(parts) ==
    IF parts = <<>> THEN <<>>
    ELSE IF Len(parts) = 1 THEN parts[1]
    ELSE parts[1] \o <<"\n">> \o JoinLines(Tail(parts))

\* str(n) for n >= 0
RECURSIVE Decimal(_)
Decimal(n) ==
    IF n < 10 THEN <<DigitSeq[n + 1]>>
    ELSE Decimal(n \div 10) \o <<DigitSeq[(n % 10) + 1]>>

-----------------------------------------------------------------------------
(* Regular expressions of the indexer *)

\* the number of '#' characters line has from position p on
RECURSIVE LeadingHashes(_, _)
LeadingHashes(line, p) ==
    IF p > Len(line) \/ line[p] # "#" THEN 0 ELSE 1 + LeadingHashes(line, p + 1)

\* _HEADING_RE = ^(#{1,6})\s+(.*) : group 1 is the run of 1..6 '#', which must
\* be followed by whitespace; group 2 is the rest of the line
HeadingMatch(line) ==
    LET h == LeadingHashes(line, 1)
    IN  IF h >= 1 /\ h <= 6 /\ h < Len(line) /\ line[h + 1] \in Whitespace
        THEN [matched |-> TRUE, level |-> h, rest |-> From(line, SkipSpaces(line, h + 1))]
        ELSE [matched |-> FALSE]

\* One step of the automaton of \d{1,3}(?:\.\d+)*(?:\.[a-z](?:\.\d+)*)? ;
\* letters is the class [a-z] matches (wider under re.IGNORECASE)
SectionStep(q, c, letters) ==
    CASE q = "start" /\ c \in Digits -> "d1"
      [] q = "d1" /\ c \in Digits -> "d2"
      [] q = "d2" /\ c \in Digits -> "d3"
      [] q \in {"d1", "d2", "d3", "num"} /\ c = "." -> "dot"
      [] q = "dot" /\ c \in Digits -> "num"
      [] q = "num" /\ c \in Digits -> "num"
      [] q = "dot" /\ c \in letters -> "let"
      [] q \in {"let", "lnum"} /\ c = "." -> "ldot"
      [] q = "ldot" /\ c \in Digits -> "lnum"
      [] q = "lnum" /\ c \in Digits -> "lnum"
      [] OTHER -> "dead"

\* the end positions e >= i such that s[p..e] is a section number, the
\* automaton being in state q before s[i]
RECURSIVE SectionScan(_, _, _, _)
SectionScan(s, i, q, letters) ==
    LET next == SectionStep(q, s[i], letters)
    IN  IF i > Len(s) \/ next = "dead" THEN {}
        ELSE (IF next \in {"d1", "d2", "d3", "num", "let", "lnum"} THEN {i} ELSE {})
             \cup SectionScan(s, i + 1, next, letters)

Max(S) == CHOOSE x \in S : \A y \in S : y <= x

\* _SECTION_NUM_RE = ^(number)[.\s]\s*(.*) matched against a title: the
\* number is the longest section number followed by '.' or whitespace
SectionMatch(title) ==
    LET ends == {e \in SectionScan(title, 1, "start", LowerAZ) :
                    e < Len(title) /\ title[e + 1] \in ({"."} \cup Whitespace)}
        last == Max(ends)
    IN  IF ends = {} THEN [matched |-> FALSE]
        ELSE [matched |-> TRUE,
              num |-> SubSeq(title, 1, last),
              rest |-> From(title, SkipSpaces(title, last + 2))]

-----------------------------------------------------------------------------
(* Document tree (types.py) *)

NodeMetadata(document_type, section_number, title) ==
    [document_type |-> document_type, section_number |-> section_number, title |-> title]

\* TreeNode with the dataclass defaults children = [], token_count = 0
TreeNode(id, content, metadata) ==
    [id |-> id, content |-> content, metadata |-> metadata,
     children |-> <<>>, token_count |-> 0]

\* TreeNode.walk: depth-first, the node before its children
RECURSIVE walk(_)
RECURSIVE WalkChildren(_, _)
walk(node) == <<node>> \o WalkChildren(node.children, 1)
WalkChildren(children, k) ==
    IF k > Len(children) THEN <<>>
    ELSE walk(children[k]) \o WalkChildren(children, k + 1)

-----------------------------------------------------------------------------
(* index_document (indexer.py).  The nodes under construction live in an   *)
(* arena: nodes[i].children holds arena positions, nodes[1] is the root,   *)
(* and the stack holds <<level, position>> pairs.                          *)

MaxLines == 3

IdMaxLen == 40

\* the lines a markdown input is made of
MdLines ==
    LET RepeatA(n) == [i \in 1..n |-> "a"]
    IN
    { <<"#", " ", "R", "o", "o", "t">>,
      <<"#", "#", " ", "A", " ", "b">>,
      <<"#", " ", "a", " ", "b", "_", "1">>,
      <<"#", "#", "#", " ", "1", ".", "2", " ", "G", "o">>,
      <<"#", "#", " ", "1", ".", " ", "G", "o">>,
      <<"g", "o">>,
      <<>>,
      <<"#", " ">> \o RepeatA(IdMaxLen + 1),
      <<"#", " ">> \o RepeatA(IdMaxLen) \o <<"b">> }

\* _count_tokens: the tokenizer is the external tiktoken encoding; the model
\* counts characters, a deterministic count that is 0 on the empty string
count_tokens(text) == Len(text)

\* f"{base}_{counter}"
Suffixed(base, counter) == base \o <<"_">> \o Decimal(counter)

\* the while loop of _unique_id: the first counter >= c whose id is unseen
RECURSIVE FirstFree(_, _, _)
FirstFree(base, seen, c) ==
    IF Suffixed(base, c) \in seen THEN FirstFree(base, seen, c + 1) ELSE c

\* _unique_id(base): the id returned (it is then added to seen_ids)
unique_id(base, seen) ==
    IF base \notin seen THEN base ELSE Suffixed(base, FirstFree(base, seen, 1))

\* base_id = section_num or title.lower().replace(" ", "_")[:40]
base_id(section_num, title) ==
    IF section_num # <<>> THEN section_num
    ELSE LET low == Lower(title)
         IN  Take([i \in DOMAIN low |-> IF low[i] = " " THEN "_" ELSE low[i]], IdMaxLen)

\* _flush_content: the arena after the current node took its content
flush_content(arena, cur, parts) ==
    IF parts # <<>>
    THEN [arena EXCEPT ![cur].content = Strip(JoinLines(parts)),
                       ![cur].token_count = count_tokens(Strip(JoinLines(parts)))]
    ELSE arena

\* a stack that is never popped
NeverPopped(stk, level) == stk

\* while len(stack) > 1 and stack[-1][0] >= level: stack.pop()
RECURSIVE PopTo(_, _)
PopTo(stk, level) ==
    IF Len(stk) > 1 /\ stk[Len(stk)][1] >= level
    THEN PopTo(SubSeq(stk, 1, Len(stk) - 1), level)
    ELSE stk

\* the tree below arena position i, with children as nodes
RECURSIVE ArenaTree(_, _)
ArenaTree(arena, i) ==
    [arena[i] EXCEPT !.children = [k \in DOMAIN arena[i].children |->
                                       ArenaTree(arena, arena[i].children[k])]]

RECURSIVE SumTokens(_)
SumTokens(ns) == IF ns = <<>> THEN 0 ELSE ns[1].token_count + SumTokens(Tail(ns))

InitIndex ==
    /\ AtRest("index")
    /\ md \in UNION {[1..n -> MdLines] : n \in 0..MaxLines}
    /\ ixpos = 0
    /\ nodes = <<TreeNode(<<"r", "o", "o", "t">>, <<>>,
                          NodeMetadata("RULEBOOK", <<>>, <<"d", "o", "c">>))>>
    /\ stack = <<<<0, 1>>>>
    /\ current_node = 1
    /\ content_parts = <<>>
    /\ seen_ids = {}
    /\ ixpc = "loop"
    /\ total_tokens = 0

\* a heading line: flush, derive the id, attach under the nearest shallower heading
IndexHeading ==
    /\ ixpc = "loop"
    /\ ixpos < Len(md)
    /\ HeadingMatch(md[ixpos + 1]).matched
    /\ LET hm == HeadingMatch(md[ixpos + 1])
           level == hm.level
           title == Strip(hm.rest)
           sm == SectionMatch(title)
           section_num == IF sm.matched THEN sm.num ELSE <<>>
           section_title == IF sm.matched THEN Strip(sm.rest) ELSE title
           node_id == unique_id(base_id(section_num, title), seen_ids)
           meta == NodeMetadata("RULEBOOK", section_num,
                                IF section_title # <<>> THEN section_title ELSE title)
           flushed == flush_content(nodes, current_node, content_parts)
           new == Len(nodes) + 1
           popped == PopTo(stack, level)
           parent == popped[Len(popped)][2]
       IN  /\ seen_ids' = seen_ids \cup {node_id}
           /\ nodes' = Append([flushed EXCEPT ![parent].children = Append(@, new)],
                              TreeNode(node_id, <<>>, meta))
           /\ stack' = Append(popped, <<level, new>>)
           /\ current_node' = new
           /\ content_parts' = <<>>
    /\ ixpos' = ixpos + 1
    /\ UNCHANGED <<md, ixpc, total_tokens>>

\* any other line: kept when it has text, or as a blank between paragraphs
IndexBody ==
    /\ ixpc = "loop"
    /\ ixpos < Len(md)
    /\ ~HeadingMatch(md[ixpos + 1]).matched
    /\ content_parts' =
         IF Strip(md[ixpos + 1]) # <<>> THEN Append(content_parts, md[ixpos + 1])
         ELSE IF content_parts # <<>> THEN Append(content_parts, <<>>)
         ELSE content_parts
    /\ ixpos' = ixpos + 1
    /\ UNCHANGED <<md, nodes, stack, current_node, seen_ids, ixpc, total_tokens>>

\* after the last line: the final flush and the token total
IndexFinish ==
    /\ ixpc = "loop"
    /\ ixpos = Len(md)
    /\ nodes' = flush_content(nodes, current_node, content_parts)
    /\ content_parts' = <<>>
    /\ total_tokens' = SumTokens(walk(ArenaTree(nodes', 1)))
    /\ ixpc' = "done"
    /\ UNCHANGED <<md, ixpos, stack, current_node, seen_ids>>

NextIndex ==
    \/ IndexHeading /\ Frame("index")
    \/ IndexBody /\ Frame("index")
    \/ IndexFinish /\ Frame("index")

SpecIndex == InitIndex /\ [][NextIndex]_vars

\* C1: no two nodes of the tree returned by index_document share an id, the
\* synthetic root included.  Violated by the heading "# Root": its id "root"
\* is the root's, which _unique_id never saw.
C1_IdsUnique ==
    ixpc = "done" =>
        LET w == walk(ArenaTree(nodes, 1))
            ids == [i \in DOMAIN w |-> w[i].id]
        IN  Cardinality({ids[i] : i \in DOMAIN ids}) = Len(ids)

\* C24: after every line read, each heading's node is a child of the node of
\* the nearest preceding heading of strictly lower level, or of the root when
\* there is none, and the children of every node are in document order.  The
\* node at arena position n + 1 is the one made for the n-th heading.
C24_NestedByDepth ==
    LET read == SubSeq(md, 1, ixpos)
        heads == SelectSeq(read, LAMBDA line : HeadingMatch(line).matched)
        level(n) == HeadingMatch(heads[n - 1]).level
        lower(n) == {m \in 2..(n - 1) : level(m) < level(n)}
        nearest(n) == IF lower(n) = {} THEN 1 ELSE Max(lower(n))
    IN  /\ Len(nodes) = Len(heads) + 1
        /\ \A n \in 2..Len(nodes) :
             /\ \E k \in DOMAIN nodes[nearest(n)].children :
                    nodes[nearest(n)].children[k] = n
             /\ \A p \in DOMAIN nodes : p # nearest(n) =>
                    \A k \in DOMAIN nodes[p].children : nodes[p].children[k] # n
        /\ \A p \in DOMAIN nodes : \A j, k \in DOMAIN nodes[p].children :
                j < k => nodes[p].children[j] < nodes[p].children[k]

\* a level is skipped and then a shallower heading follows: "#", "###", "##"
\* gives the first heading both others as children, in that order
C24_Witness ==
    /\ ixpc = "done"
    /\ Len(nodes) = 4
    /\ [i \in 1..3 |-> HeadingMatch(md[i]).level] = <<1, 3, 2>>
    /\ nodes[1].children = <<2>>
    /\ nodes[2].children = <<3, 4>>

-----------------------------------------------------------------------------
(* Retriever (retriever.py): shared definitions.  Trees are values here:   *)
(* a node's children field holds the child nodes.  A score is a float,     *)
(* modelled exactly as a fraction <<numerator, denominator>>.              *)

RetrievedSection(node, score, document_name) ==
    [node |-> node, score |-> score, document_name |-> document_name,
     errata_context |-> <<>>]

ScoreLess(a, b) == a[1] * b[2] < b[1] * a[2]

ScoreMul(a, b) == <<a[1] * b[1], a[2] * b[2]>>

Unsorted(seq, keys) == seq

\* list.sort(key=lambda x: -key): descending by key, equal keys keep their order
SortDesc(seq, keys) ==
    LET rank(i) == Cardinality({j \in DOMAIN seq : ScoreLess(keys[i], keys[j])})
                   + Cardinality({j \in 1..(i - 1) : /\ ~ScoreLess(keys[j], keys[i])
                                                      /\ ~ScoreLess(keys[i], keys[j])})
                   + 1
    IN  [r \in DOMAIN seq |-> seq[CHOOSE i \in DOMAIN seq : rank(i) = r]]

\* _build_lookup: section_number -> node, a later node replacing an earlier one
build_lookup(index) ==
    LET w == walk(index.root)
        nums == {w[i].metadata.section_number : i \in DOMAIN w} \ {<<>>}
    IN  [n \in nums |-> w[Max({i \in DOMAIN w : w[i].metadata.section_number = n})]]

\* set(q_lower.split())
QueryWords(query) == LET ws == SplitFrom(Lower(query), 1) IN {ws[i] : i \in DOMAIN ws}

\* sum(1 for w in words if w in text), text = f"{title} {content}".lower()
WordMatches(query, node) ==
    LET text == Lower(node.metadata.title \o <<" ">> \o node.content)
    IN  Cardinality({w \in QueryWords(query) : Contains(w, text)})

TopChildren == 3

\* _keyword_select_children
keyword_select_children(node, query) ==
    LET kept == SelectSeq(node.children, LAMBDA c : WordMatches(query, c) > 0)
        keys == [i \in DOMAIN kept |-> <<WordMatches(query, kept[i]), 1>>]
    IN  Take(SortDesc(kept, keys), TopChildren)

-----------------------------------------------------------------------------
(* Cross-references: _CROSS_REF_RE and resolve_cross_references *)

\* s[p..] starts with word, compared case-insensitively (re.IGNORECASE)
StartsWithAt(s, p, word) ==
    /\ p + Len(word) - 1 <= Len(s)
    /\ Lower(SubSeq(s, p, p + Len(word) - 1)) = word

\* (?:rule|section)\s+(number) matched at p: <<start, end>> of the number,
\* the longest section number (greedy), or <<0, 0>> when there is no match
CrossRefCoreAt(s, p) ==
    LET kw == IF StartsWithAt(s, p, <<"r", "u", "l", "e">>) THEN 4
              ELSE IF StartsWithAt(s, p, <<"s", "e", "c", "t", "i", "o", "n">>) THEN 7
              ELSE 0
        q == SkipSpaces(s, p + kw)
        ends == SectionScan(s, q, "start", LowerAZ \cup UpperAZ)
    IN  IF kw = 0 \/ q = p + kw \/ ends = {} THEN <<0, 0>> ELSE <<q, Max(ends)>>

\* _CROSS_REF_RE matched at p: the optional "see\s+" first, then without it
CrossRefAt(s, p) ==
    LET q == SkipSpaces(s, p + 3)
        after_see == CrossRefCoreAt(s, q)
    IN  IF StartsWithAt(s, p, <<"s", "e", "e">>) /\ q > p + 3 /\ after_see # <<0, 0>>
        THEN after_see
        ELSE CrossRefCoreAt(s, p)

\* _CROSS_REF_RE.findall(content): the numbers of the non-overlapping
\* matches, scanning from position p
RECURSIVE FindRefs(_, _)
FindRefs(s, p) ==
    LET m == CrossRefAt(s, p)
    IN  IF p > Len(s) THEN <<>>
        ELSE IF m = <<0, 0>> THEN FindRefs(s, p + 1)
        ELSE <<SubSeq(s, m[1], m[2])>> \o FindRefs(s, m[2] + 1)

CapBeforeMax(total, max_sections) == total + 1 >= max_sections

\* if len(sections) + len(new_sections) >= max_sections: break
CapReached(total, max_sections) == total >= max_sections

\* the loop over one section's references, from reference k on;
\* acc = [existing_ids, new_sections]
RECURSIVE XrefRefs(_, _, _, _, _, _, _)
XrefRefs(refs, k, acc, lookup, document_name, nsections, max_sections) ==
    IF k > Len(refs) THEN acc
    ELSE IF refs[k] \in DOMAIN lookup /\ lookup[refs[k]].id \notin acc.existing_ids
    THEN LET added == [existing_ids |-> acc.existing_ids \cup {lookup[refs[k]].id},
                       new_sections |-> Append(acc.new_sections,
                           RetrievedSection(lookup[refs[k]], <<1, 2>>, document_name))]
         IN  IF CapReached(nsections + Len(added.new_sections), max_sections)
             THEN added
             ELSE XrefRefs(refs, k + 1, added, lookup, document_name, nsections, max_sections)
    ELSE XrefRefs(refs, k + 1, acc, lookup, document_name, nsections, max_sections)

\* the loop over the sections, from section i on
RECURSIVE XrefSections(_, _, _, _, _, _)
XrefSections(sections, i, acc, lookup, document_name, max_sections) ==
    IF i > Len(sections) THEN acc
    ELSE XrefSections(sections, i + 1,
                      XrefRefs(FindRefs(sections[i].node.content, 1), 1, acc, lookup,
                               document_name, Len(sections), max_sections),
                      lookup, document_name, max_sections)

resolve_cross_references(sections, lookup, document_name, max_sections) ==
    sections \o
    XrefSections(sections, 1,
                 [existing_ids |-> {sections[i].node.id : i \in DOMAIN sections},
                  new_sections |-> <<>>],
                 lookup, document_name, max_sections).new_sections

-----------------------------------------------------------------------------
(* search (retriever.py): LLM-guided descent with the ranking oracle as an *)
(* external input, and the keyword-only search.                            *)

MaxSections == 3

\* make_node of the tests: a rulebook node
Node(id, section_number, title, content, children) ==
    [id |-> id, content |-> content,
     metadata |-> NodeMetadata("RULEBOOK", section_number, title),
     children |-> children, token_count |-> 0]

RootId == <<"r", "o", "o", "t">>

\* the sections the sample trees are made of
Sample ==
    LET en == Node(<<"1">>, <<"1">>, <<"E", "n">>,
                   <<"S", "e", "e", " ", "r", "u", "l", "e", " ", "2", ".">>, <<>>)
        re == Node(<<"2">>, <<"2">>, <<"R", "e">>, <<"c", "o">>, <<>>)
    IN  [en |-> en,
         re |-> re,
         ca |-> Node(<<"c">>, <<>>, <<"c", "a">>,
                     <<"r", "u", "l", "e", " ", "1", ",", " ", "s", "e", "c", "t", "i",
                       "o", "n", " ", "2", " ", "e", "n">>, <<>>),
         group |-> Node(<<"3">>, <<"3">>, <<"e", "n", " ", "r", "e">>, <<>>, <<en, re>>),
         \* what index_document makes of the heading "# Root": its id is "root"
         titled_root |-> Node(RootId, <<>>, <<"R", "o", "o", "t">>, <<"e", "n">>, <<>>)]

make_index(document_name, children) ==
    [document_name |-> document_name, document_type |-> "RULEBOOK",
     root |-> Node(RootId, <<>>, <<>>, <<>>, children),
     total_tokens |-> 0, source_hash |-> <<>>]

Rulebook == <<"r", "u", "l", "e", "b", "o", "o", "k">>

SearchIndexes ==
    { make_index(Rulebook, <<Sample.en, Sample.re>>),
      make_index(Rulebook, <<Sample.group, Sample.ca>>) }

Queries == { <<"e", "n">>, <<"z", "z">>, <<"E", "n", " ", "c", "o">>, <<" ">> }

\* what the ranking oracle can do when asked: raise, or answer a text
OracleOutcomes ==
    {[kind |-> k, text |-> <<>>] :
        k \in {"AuthenticationError", "APIConnectionError", "APIStatusError", "Exception"}}
    \cup {[kind |-> "text", text |-> t] :
            t \in { <<"0">>, <<"1">>, <<"0", ",", " ", "1">>, <<"0", ",", "0">>, <<"7">>,
                    <<"n", "o">>, <<>>, <<"sup2">> }}

NoOracle == [kind |-> "none", text |-> <<>>]

\* result.split(","), each part stripped
RECURSIVE SplitComma(_, _)
SplitComma(s, p) ==
    LET commas == {i \in p..Len(s) : s[i] = ","}
    IN  IF commas = {} THEN <<Strip(From(s, p))>>
        ELSE LET c == CHOOSE i \in commas : \A j \in commas : i <= j
             IN  <<Strip(SubSeq(s, p, c - 1))>> \o SplitComma(s, c + 1)

\* part.isdigit(); "sup2" stands for the characters (superscript digits) that
\* isdigit accepts and int() rejects
IsDigit(part) == part # <<>> /\ \A i \in DOMAIN part : part[i] \in Digits \cup {"sup2"}

\* int(part) fails (ValueError) on a part isdigit accepted
IntFails(part) == \E i \in DOMAIN part : part[i] = "sup2"

\* int(part)
RECURSIVE IntOf(_)
IntOf(part) ==
    IF part = <<>> THEN 0
    ELSE 10 * IntOf(SubSeq(part, 1, Len(part) - 1))
         + (CHOOSE d \in 0..9 : DigitSeq[d + 1] = part[Len(part)])

\* a handler that re-raises nothing: every oracle error ends in the fallback
PropagatesNothing(kind) == FALSE

\* a handler that re-raises every oracle error
PropagatesEveryError(kind) == TRUE

\* the except clauses of _select_children: the exceptions that are re-raised
Propagates(kind) == kind = "AuthenticationError"

\* _select_children with the oracle's outcome o: the exception leaving it
\* (or "none"), the selected children, and whether the keyword fallback ran
select_children(node, query, o) ==
    LET \* digits: the parts of the answer isdigit accepts; fallback: what the
        \* keyword fallback gives
        Outcome(digits, fallback) ==
            LET Checked(valid) ==
                    IF valid = <<>> THEN fallback
                    ELSE [exc |-> "none", fallback |-> FALSE,
                          selected |-> [i \in DOMAIN valid |->
                                           node.children[IntOf(valid[i]) + 1]]]
            IN  IF o.kind # "text"
                THEN IF Propagates(o.kind)
                     THEN [exc |-> o.kind, fallback |-> FALSE, selected |-> <<>>]
                     ELSE fallback
                ELSE IF \E i \in DOMAIN digits : IntFails(digits[i])
                THEN [exc |-> "ValueError", fallback |-> FALSE, selected |-> <<>>]
                ELSE Checked(SelectSeq(digits,
                                       LAMBDA part : IntOf(part) < Len(node.children)))
    IN  IF node.children = <<>> THEN [exc |-> "none", fallback |-> FALSE, selected |-> <<>>]
        ELSE Outcome(SelectSeq(SplitComma(o.text, 1), IsDigit),
                     [exc |-> "none", fallback |-> TRUE,
                      selected |-> keyword_select_children(node, query)])

\* a visited test that never finds the id
SeenNever(id, visited_ids) == FALSE

\* if node.id in visited
Seen(id, visited_ids) == id \in visited_ids

\* while frontier and len(results) < max_sections
LoopRuns(f, r, max_sections) == f # <<>> /\ Len(r) < max_sections

\* one iteration of the while loop of _search_with_llm, the oracle doing o
\* if it is asked; st = [frontier, visited, results, exc] and the two records
\* of the fallback warnings: fell_back (one was logged) and fallback_leaf (a
\* fallback selected a child without children), and expanded: the ids of the
\* nodes _select_children was called with, in call order
LlmIteration(st, query, document_name, o) ==
    LET node == Head(st.frontier)
        popped == [st EXCEPT !.frontier = Tail(st.frontier)]
        called == [popped EXCEPT !.expanded = Append(@, node.id)]
        \* the body of "if node.children:", sel being what _select_children did
        Selected(sel) ==
            LET inner == SelectSeq(sel.selected, LAMBDA c : c.children # <<>>)
                leaves == SelectSeq(sel.selected, LAMBDA c : c.children = <<>>)
            IN  IF sel.exc # "none"
                THEN [called EXCEPT !.visited = @ \cup {node.id}, !.exc = sel.exc]
                ELSE [called EXCEPT
                         !.visited = @ \cup {node.id},
                         !.frontier = @ \o inner,
                         !.results = @ \o [i \in DOMAIN leaves |->
                                              RetrievedSection(leaves[i], <<1, 1>>,
                                                               document_name)],
                         !.fell_back = @ \/ sel.fallback,
                         !.fallback_leaf = @ \/ (sel.fallback /\ leaves # <<>>)]
    IN  IF Seen(node.id, st.visited) THEN popped
        ELSE IF node.children # <<>>
        THEN Selected(select_children(node, query, o))
        ELSE IF node.id # RootId
        THEN [popped EXCEPT !.visited = @ \cup {node.id},
                            !.results = Append(@, RetrievedSection(node, <<1, 1>>, document_name))]
        ELSE [popped EXCEPT !.visited = @ \cup {node.id}]

\* _search_with_keywords
search_with_keywords(query, index, lookup, max_sections) ==
    LET w == walk(index.root)
        cand == SelectSeq(w, LAMBDA n : n.id # RootId /\ WordMatches(query, n) > 0)
        keys == [i \in DOMAIN cand |->
                    <<WordMatches(query, cand[i]), Cardinality(QueryWords(query))>>]
        sorted == SortDesc([i \in DOMAIN cand |-> <<keys[i], cand[i]>>], keys)
        top == Take(sorted, max_sections)
        found == [i \in DOMAIN top |->
                     RetrievedSection(top[i][2], top[i][1], index.document_name)]
    IN  Take(resolve_cross_references(found, lookup, index.document_name, max_sections),
             max_sections)

SearchState == [frontier |-> frontier, visited |-> visited, results |-> results,
                exc |-> exc, fell_back |-> fell_back, fallback_leaf |-> fallback_leaf,
                expanded |-> expanded]

InitSearch ==
    /\ AtRest("search")
    /\ s_query \in Queries
    /\ s_index \in SearchIndexes \cup {make_index(Rulebook, <<Sample.titled_root, Sample.re>>)}
    /\ s_max \in 0..MaxSections
    /\ use_llm \in BOOLEAN
    /\ frontier = <<s_index.root>>
    /\ visited = {}
    /\ results = <<>>
    /\ spc = "search"
    /\ exc = "none"
    /\ ret = <<>>
    /\ last_oracle = NoOracle
    /\ fell_back = FALSE
    /\ fallback_leaf = FALSE
    /\ expanded = <<>>

\* an iteration that asks the oracle: the popped node is new and has children
SearchExpand ==
    /\ spc = "search" /\ use_llm
    /\ LoopRuns(frontier, results, s_max)
    /\ ~Seen(Head(frontier).id, visited)
    /\ Head(frontier).children # <<>>
    /\ \E o \in OracleOutcomes :
         \E st \in {LlmIteration(SearchState, s_query, s_index.document_name, o)} :
             /\ frontier' = st.frontier
             /\ visited' = st.visited
             /\ results' = st.results
             /\ exc' = st.exc
             /\ fell_back' = st.fell_back
             /\ fallback_leaf' = st.fallback_leaf
             /\ expanded' = st.expanded
             /\ spc' = IF st.exc # "none" THEN "raised" ELSE "search"
             /\ last_oracle' = o
    /\ UNCHANGED <<s_query, s_index, s_max, use_llm, ret>>

\* an iteration that asks nothing: the popped node was visited, or is a leaf
SearchVisit ==
    /\ spc = "search" /\ use_llm
    /\ LoopRuns(frontier, results, s_max)
    /\ Seen(Head(frontier).id, visited) \/ Head(frontier).children = <<>>
    /\ \E st \in {LlmIteration(SearchState, s_query, s_index.document_name, NoOracle)} :
           /\ frontier' = st.frontier
           /\ visited' = st.visited
           /\ results' = st.results
    /\ UNCHANGED <<s_query, s_index, s_max, use_llm, spc, exc, ret, last_oracle,
                   fell_back, fallback_leaf, expanded>>

\* the loop is over: cross-references, truncation, return
SearchReturn ==
    /\ spc = "search" /\ use_llm
    /\ ~LoopRuns(frontier, results, s_max)
    /\ ret' = Take(resolve_cross_references(results, build_lookup(s_index),
                                            s_index.document_name, s_max), s_max)
    /\ spc' = "returned"
    /\ UNCHANGED <<s_query, s_index, s_max, use_llm, frontier, visited, results, exc,
                   last_oracle, fell_back, fallback_leaf, expanded>>

\* use_llm off: the keyword-only search, in one step
SearchKeywords ==
    /\ spc = "search" /\ ~use_llm
    /\ ret' = search_with_keywords(s_query, s_index, build_lookup(s_index), s_max)
    /\ spc' = "returned"
    /\ UNCHANGED <<s_query, s_index, s_max, use_llm, frontier, visited, results, exc,
                   last_oracle, fell_back, fallback_leaf, expanded>>

NextSearch ==
    \/ SearchExpand /\ Frame("search")
    \/ SearchVisit /\ Frame("search")
    \/ SearchReturn /\ Frame("search")
    \/ SearchKeywords /\ Frame("search")

SpecSearch == InitSearch /\ [][NextSearch]_vars

\* search is one running call, and a running call is not suspended for ever:
\* weak fairness of NextSearch, WF_vars(NextSearch), written out.  A step of
\* NextSearch is possible exactly while spc = "search" (SearchKeywords with
\* use_llm off; with it on SearchExpand or SearchVisit while the loop runs and
\* SearchReturn when it is over), and every step of the call changes spc or
\* frontier.
SpecSearchLive ==
    SpecSearch /\ ([]<>(spc # "search") \/ []<><<spc = "search" /\ NextSearch>>_vars)

\* C2: an authentication failure reported by the oracle at any step of the
\* descent leaves search as that same failure; nothing is returned.
C2_AuthPropagates ==
    last_oracle.kind = "AuthenticationError" =>
        spc = "raised" /\ exc = "AuthenticationError" /\ ret = <<>>

\* C2 witness: the failure comes at a later step, after a result was collected
C2_Witness ==
    /\ last_oracle.kind = "AuthenticationError"
    /\ spc = "raised"
    /\ results # <<>>
    /\ Cardinality(visited) > 1

C12_AtMostMaxSections ==
    spc = "returned" /\ s_max >= 0 => Len(ret) <= s_max

\* the descent collected more than max_sections and the return cut them off;
\* the keyword search found a section that brought a cross-reference
C12_Witness ==
    /\ spc = "returned"
    /\ s_max >= 1
    /\ Len(ret) = s_max
    /\ \/ use_llm /\ Len(results) > s_max
       \/ /\ ~use_llm
          /\ Len(resolve_cross_references(
                     Take(ret, 1), build_lookup(s_index), s_index.document_name,
                     s_max)) > s_max

\* C23 as claimed: with use_llm off, every node of the tree other than its
\* root, whatever its id or title, is scored by the distinct query words found
\* in its title and content over the number of distinct query words; the
\* nodes with a match come first in the returned list, highest score first,
\* up to max_sections, and a query without words returns the empty list.
C23_EveryNonRootScored ==
    spc = "returned" /\ ~use_llm =>
        LET others == Tail(walk(s_index.root))
            cand == SelectSeq(others, LAMBDA n : WordMatches(s_query, n) > 0)
            keys == [i \in DOMAIN cand |->
                        <<WordMatches(s_query, cand[i]), Cardinality(QueryWords(s_query))>>]
            best == Take(SortDesc([i \in DOMAIN cand |-> <<keys[i], cand[i]>>], keys), s_max)
        IN  /\ Len(ret) >= Len(best)
            /\ \A i \in DOMAIN best :
                 ret[i] = RetrievedSection(best[i][2], best[i][1], s_index.document_name)
            /\ QueryWords(s_query) = {} => ret = <<>>

\* C26: the descent ends for every oracle behaviour, by returning or by
\* raising, and until then _select_children is called at most once for each
\* node id, so at most once per node of the tree.
C26_Terminates ==
    /\ [](/\ \A i, j \in DOMAIN expanded : expanded[i] = expanded[j] => i = j
          /\ Len(expanded) <= Len(walk(s_index.root)))
    /\ <>(spc \in {"returned", "raised"})

\* the oracle chose a child with children twice: the node is at the head of
\* the frontier again after its expansion, and the loop goes on
C26_Witness ==
    /\ spc = "search" /\ use_llm
    /\ LoopRuns(frontier, results, s_max)
    /\ Head(frontier).children # <<>>
    /\ \E i \in DOMAIN expanded : expanded[i] = Head(frontier).id

\* C28 as claimed: the list search returns holds no node id twice, whatever
\* the oracle answered.
C28_NoNodeTwice ==
    spc = "returned" =>
        \A i, j \in DOMAIN ret : ret[i].node.id = ret[j].node.id => i = j

-----------------------------------------------------------------------------
(* save_tree and load_tree (indexer.py).  A JSON value is a record with    *)
(* one field naming its type: [dict |-> r], [list |-> s], [str |-> chars], *)
(* [int |-> n].  A file holds the document written to it and how many of   *)
(* its chunks have reached it; it parses as JSON only when all have.  fs    *)
(* maps a path to its file: 0 is the output path, 1.. are the names        *)
(* mkstemp can give out.                                                   *)

\* DocumentType: member -> value (types.py)
DocumentTypeValue ==
    [RULEBOOK |-> <<"r", "u", "l", "e", "b", "o", "o", "k">>,
     PENALTY_GUIDELINES |-> <<"p", "e", "n", "a", "l", "t", "y", "_", "g", "u", "i", "d",
                              "e", "l", "i", "n", "e", "s">>,
     LEGAL_CARD_LIST |-> <<"l", "e", "g", "a", "l", "_", "c", "a", "r", "d", "_", "l", "i",
                           "s", "t">>,
     RULINGS_COMPENDIUM |-> <<"r", "u", "l", "i", "n", "g", "s", "_", "c", "o", "m", "p",
                              "e", "n", "d", "i", "u", "m">>,
     CARD_DATABASE |-> <<"c", "a", "r", "d", "_", "d", "a", "t", "a", "b", "a", "s", "e">>]

\* save_tree._node_to_dict
RECURSIVE node_to_dict(_)
node_to_dict(node) ==
    [dict |->
        [id |-> [str |-> node.id],
         content |-> [str |-> node.content],
         metadata |-> [dict |->
             [document_type |-> [str |-> DocumentTypeValue[node.metadata.document_type]],
              section_number |-> [str |-> node.metadata.section_number],
              title |-> [str |-> node.metadata.title]]],
         token_count |-> [int |-> node.token_count],
         children |-> [list |-> [k \in DOMAIN node.children |->
                                    node_to_dict(node.children[k])]]]]

\* save_tree: data = {...}
index_to_dict(index) ==
    [dict |->
        [document_name |-> [str |-> index.document_name],
         document_type |-> [str |-> DocumentTypeValue[index.document_type]],
         total_tokens |-> [int |-> index.total_tokens],
         source_hash |-> [str |-> index.source_hash],
         root |-> node_to_dict(index.root)]]

\* how an evaluation ends: the exception raised ("none") and the value
Result(e, value) == [exc |-> e, value |-> value]

\* v[key] on a parsed JSON value: KeyError on a dict without the key,
\* TypeError on anything that is not a dict
Subscript(v, key) ==
    IF "dict" \notin DOMAIN v THEN Result("TypeError", <<>>)
    ELSE IF key \notin DOMAIN v.dict THEN Result("KeyError", <<>>)
    ELSE Result("none", v.dict[key])

\* the Python value json.loads gives for a JSON string or number
PyOf(v) ==
    IF "str" \in DOMAIN v THEN v.str ELSE IF "int" \in DOMAIN v THEN v.int ELSE v

RulebookAlways(v) == Result("none", "RULEBOOK")

\* DocumentType(value): the member with that value, ValueError when none has it
DocumentTypeOf(v) ==
    IF \E m \in DOMAIN DocumentTypeValue : [str |-> DocumentTypeValue[m]] = v
    THEN Result("none", CHOOSE m \in DOMAIN DocumentTypeValue :
                            [str |-> DocumentTypeValue[m]] = v)
    ELSE Result("ValueError", <<>>)

\* the first exception among results evaluated in order ("none" when none)
FirstExc(rs) ==
    IF \A i \in DOMAIN rs : rs[i].exc = "none" THEN "none"
    ELSE rs[CHOOSE i \in DOMAIN rs :
                rs[i].exc # "none" /\ \A j \in 1..(i - 1) : rs[j].exc = "none"].exc

\* load_tree._dict_to_node, the subscripts evaluated in the code's order
RECURSIVE dict_to_node(_)
dict_to_node(d) ==
    LET After(r, key) == IF r.exc = "none" THEN Subscript(r.value, key) ELSE r
        meta == Subscript(d, "metadata")
        dt == After(meta, "document_type")
        member == IF dt.exc = "none" THEN DocumentTypeOf(dt.value) ELSE dt
        num == After(meta, "section_number")
        title == After(meta, "title")
        id == Subscript(d, "id")
        content == Subscript(d, "content")
        tokens == Subscript(d, "token_count")
        \* d.get("children", []) and the iteration over it
        given == IF "children" \in DOMAIN d.dict THEN d.dict.children ELSE [list |-> <<>>]
        kids == IF "list" \in DOMAIN given
                THEN [k \in DOMAIN given.list |-> dict_to_node(given.list[k])]
                ELSE IF given \in {[dict |-> <<>>], [str |-> <<>>]} THEN <<>>
                ELSE <<Result("TypeError", <<>>)>>
        first == FirstExc(<<meta, dt, member, num, title, id, content, tokens>>)
    IN  IF first # "none" THEN Result(first, <<>>)
        ELSE IF FirstExc(kids) # "none" THEN Result(FirstExc(kids), <<>>)
        ELSE Result("none", [id |-> PyOf(id.value), content |-> PyOf(content.value),
                 metadata |-> NodeMetadata(member.value, PyOf(num.value),
                                           PyOf(title.value)),
                 children |-> [k \in DOMAIN kids |-> kids[k].value],
                 token_count |-> PyOf(tokens.value)])

WriteChunks == 2

\* load_tree on the file at a path: the exception it raises ("none" on
\* success) and the index it returns
load_tree(file) ==
    LET data == file.doc
        rootd == Subscript(data, "root")
        root == IF rootd.exc = "none" THEN dict_to_node(rootd.value) ELSE rootd
        name == Subscript(data, "document_name")
        dt == Subscript(data, "document_type")
        member == IF dt.exc = "none" THEN DocumentTypeOf(dt.value) ELSE dt
        total == Subscript(data, "total_tokens")
        rest == FirstExc(<<name, dt, member, total>>)
    IN  IF ~file.exists THEN Result("FileNotFoundError", <<>>)
        \* json.loads on a text nested deeper than the interpreter's recursion limit
        ELSE IF "nested" \in DOMAIN file THEN Result("RecursionError", <<>>)
        ELSE IF file.chunks < WriteChunks THEN Result("ValueError: Corrupt index file", <<>>)
        ELSE IF root.exc \in {"KeyError", "TypeError"}
        THEN Result("ValueError: Invalid index structure", <<>>)
        ELSE IF root.exc # "none" THEN Result(root.exc, <<>>)
        ELSE IF rest # "none" THEN Result(rest, <<>>)
        ELSE Result("none", [document_name |-> PyOf(name.value),
                 document_type |-> member.value,
                 root |-> root.value,
                 total_tokens |-> PyOf(total.value),
                 source_hash |-> IF "source_hash" \in DOMAIN data.dict
                                 THEN PyOf(data.dict.source_hash) ELSE <<>>])

SaveCalls == 2

\* the indexes handed to save_tree
SaveIndexes ==
    SearchIndexes \cup
    { [make_index(<<"c", "a", "r", "d", "s">>, <<Sample.group, Sample.ca>>)
          EXCEPT !.document_type = "CARD_DATABASE", !.total_tokens = 7,
                 !.source_hash = <<"a", "b">>, !.root.token_count = 7,
                 !.root.children[1].children[2].token_count = 2,
                 !.root.children[2].metadata.document_type = "CARD_DATABASE"] }

\* a complete file holding an index, written by call p (0: before any call)
FileOf(index, p) ==
    [exists |-> TRUE, doc |-> index_to_dict(index), chunks |-> WriteChunks, by |-> p]

InitSave ==
    /\ AtRest("store")
    /\ previous \in {[exists |-> FALSE]} \cup {FileOf(x, 0) : x \in SearchIndexes}
    /\ fs = [n \in 0..SaveCalls |-> IF n = 0 THEN previous ELSE [exists |-> FALSE]]
    /\ sv \in [1..SaveCalls ->
                [pc : {"start"}, index : SaveIndexes, tmp : {0}, fault : {"none"},
                 exc : {"none"}]]
    /\ loaded = <<>>

\* line 162: tempfile.mkstemp creates an empty file under an unused name
SaveMkstemp(p) ==
    /\ sv[p].pc = "start"
    /\ \E n \in 1..SaveCalls :
        /\ ~fs[n].exists
        /\ fs' = [fs EXCEPT ![n] = [FileOf(sv[p].index, p) EXCEPT !.chunks = 0]]
        /\ sv' = [sv EXCEPT ![p].pc = "write", ![p].tmp = n]
    /\ UNCHANGED <<loaded, previous>>

\* line 167 is reached once the with block has written everything and closed
ClosedEarly(chunks) == TRUE

Closed(chunks) == chunks = WriteChunks

\* lines 164-166: json.dump and the newline reach the temporary file
SaveWrite(p) ==
    /\ sv[p].pc = "write"
    /\ fs' = [fs EXCEPT ![sv[p].tmp].chunks = @ + 1]
    /\ sv' = [sv EXCEPT ![p].pc = IF Closed(fs'[sv[p].tmp].chunks) THEN "replace"
                                  ELSE "write"]
    /\ UNCHANGED <<loaded, previous>>

\* line 167: the rename puts the temporary file at the output path
SaveReplace(p) ==
    /\ sv[p].pc = "replace"
    /\ fs' = [fs EXCEPT ![0] = fs[sv[p].tmp], ![sv[p].tmp] = [exists |-> FALSE]]
    /\ sv' = [sv EXCEPT ![p].pc = "done"]
    /\ UNCHANGED <<loaded, previous>>

HandlesException(kind) == kind # "KeyboardInterrupt"

\* line 168: except BaseException
Handles(kind) == TRUE

\* mkstemp, a write, the close or the rename raises
SaveFault(p) ==
    /\ sv[p].pc \in {"start", "write", "replace"}
    /\ \E kind \in {"OSError", "KeyboardInterrupt"} :
        sv' = [sv EXCEPT ![p].fault = kind,
                         ![p].pc = IF sv[p].pc # "start" /\ Handles(kind)
                                   THEN "except" ELSE "raised",
                         ![p].exc = IF sv[p].pc # "start" /\ Handles(kind)
                                    THEN "none" ELSE kind]
    /\ UNCHANGED <<fs, loaded, previous>>

\* lines 169-170: unlink(missing_ok=True), then raise
SaveCleanup(p) ==
    /\ sv[p].pc = "except"
    /\ fs' = [fs EXCEPT ![sv[p].tmp] = [exists |-> FALSE]]
    /\ sv' = [sv EXCEPT ![p].pc = "raised", ![p].exc = sv[p].fault]
    /\ UNCHANGED <<loaded, previous>>

\* the process running the call is killed: nothing more of it runs
SaveKill(p) ==
    /\ sv[p].pc \in {"write", "replace", "except"}
    /\ sv' = [sv EXCEPT ![p].pc = "killed"]
    /\ UNCHANGED <<fs, loaded, previous>>

\* load_tree(output path), by anyone at any time
LoadOut ==
    /\ loaded' = [by |-> IF fs[0].exists THEN fs[0].by ELSE 0, result |-> load_tree(fs[0])]
    /\ UNCHANGED <<fs, sv, previous>>

NextSave ==
    \/ \E p \in DOMAIN sv : SaveMkstemp(p) /\ Frame("store")
    \/ \E p \in DOMAIN sv : SaveWrite(p) /\ Frame("store")
    \/ \E p \in DOMAIN sv : SaveReplace(p) /\ Frame("store")
    \/ \E p \in DOMAIN sv : SaveFault(p) /\ Frame("store")
    \/ \E p \in DOMAIN sv : SaveCleanup(p) /\ Frame("store")
    \/ \E p \in DOMAIN sv : SaveKill(p) /\ Frame("store")
    \/ LoadOut /\ Frame("store")

SpecSave == InitSave /\ [][NextSave]_vars

\* C4: at every point of interleaved save_tree calls, failed and killed ones
\* included, the output path holds either the file from before the calls or
\* the complete index of a call whose rename happened, never a partial file
C4_OutputAtomic ==
    \/ fs[0] = previous
    \/ /\ fs[0].exists
       /\ fs[0].by \in DOMAIN sv
       /\ fs[0] = FileOf(sv[fs[0].by].index, fs[0].by)

\* two calls are in flight, one has renamed and the other's file is partial
C4_Witness ==
    /\ fs[0].exists /\ fs[0].by \in DOMAIN sv
    /\ \E q \in DOMAIN sv : sv[q].pc \in {"write", "killed", "raised"} /\ sv[q].tmp # 0
                            /\ sv[q].index # sv[fs[0].by].index
    /\ \E n \in 1..SaveCalls : fs[n].exists /\ fs[n].chunks < WriteChunks

\* C5: a save_tree call that raised after mkstemp left no file of its own,
\* neither its temporary file nor the output file, and raised its fault
C5_FailureCleansUp ==
    \A p \in DOMAIN sv :
        sv[p].pc = "raised" /\ sv[p].tmp # 0 =>
            /\ \A n \in DOMAIN fs : fs[n].exists => fs[n].by # p
            /\ sv[p].exc = sv[p].fault
            /\ sv[p].fault # "none"

\* a call interrupted by KeyboardInterrupt has raised, and the output path
\* still holds the earlier file
C5_Witness ==
    \E p \in DOMAIN sv :
        /\ sv[p].pc = "raised" /\ sv[p].tmp # 0 /\ sv[p].exc = "KeyboardInterrupt"
        /\ previous.exists /\ fs[0] = previous

\* C6: load_tree of the file a save_tree call put at the output path returns
\* an index equal to the one that call was given
C6_RoundTrip ==
    loaded # <<>> /\ loaded.by \in DOMAIN sv =>
        /\ loaded.result.exc = "none"
        /\ loaded.result.value = sv[loaded.by].index

\* the card index, three levels deep, has been saved and loaded
C6_Witness ==
    /\ loaded # <<>> /\ loaded.by \in DOMAIN sv
    /\ loaded.result.exc = "none"
    /\ loaded.result.value.document_type = "CARD_DATABASE"
    /\ Len(walk(loaded.result.value.root)) = 5

\* a JSON value without the field (or with the element changed) at a path
RECURSIVE Without(_, _)
Without(v, path) ==
    IF "list" \in DOMAIN v
    THEN [list |-> [v.list EXCEPT ![Head(path)] = Without(@, Tail(path))]]
    ELSE IF Len(path) = 1
    THEN [dict |-> [k \in DOMAIN v.dict \ {Head(path)} |-> v.dict[k]]]
    ELSE [dict |-> [v.dict EXCEPT ![Head(path)] = Without(@, Tail(path))]]

\* the files load_tree is tried on: none, text that is not JSON, saved
\* indexes, saved indexes with one field taken out at the top, in the root
\* node or in a child node, and JSON documents of other shapes
LoadFiles ==
    LET node == {"id", "content", "metadata", "token_count", "children"}
        meta == {"document_type", "section_number", "title"}
        In(prefix, keys) == {prefix \o <<k>> : k \in keys}
        paths == In(<<>>, {"document_name", "document_type", "total_tokens",
                           "source_hash", "root"})
                 \cup In(<<"root">>, node) \cup In(<<"root", "metadata">>, meta)
                 \cup In(<<"root", "children", 1>>, node)
                 \cup In(<<"root", "children", 1, "metadata">>, meta)
        others == { [list |-> <<>>], [str |-> <<"x">>], [dict |-> <<>>],
                    [dict |-> [root |-> [list |-> <<>>]]],
                    [dict |-> [index_to_dict(CHOOSE x \in SaveIndexes : TRUE).dict
                                  EXCEPT !.document_type = [str |-> <<"x">>]]] }
    IN  {[exists |-> FALSE]}
        \cup {[FileOf(x, 0) EXCEPT !.chunks = c] : x \in SaveIndexes, c \in 0..WriteChunks}
        \cup {[FileOf(x, 0) EXCEPT !.doc = Without(@, q)] : x \in SaveIndexes, q \in paths}
        \cup {[exists |-> TRUE, doc |-> d, chunks |-> WriteChunks, by |-> 0] : d \in others}

InitLoad ==
    /\ AtRest("store")
    /\ previous \in LoadFiles
    /\ fs = [n \in 0..SaveCalls |-> IF n = 0 THEN previous ELSE [exists |-> FALSE]]
    /\ sv = <<>>
    /\ loaded = <<>>

NextLoad == LoadOut /\ Frame("store")

SpecLoad == InitLoad /\ [][NextLoad]_vars

\* C7: load_tree raises FileNotFoundError for a missing file, the 'Corrupt
\* index file' ValueError for text that is not JSON, and the 'Invalid index
\* structure' ValueError for every JSON document that lacks document_name,
\* document_type, total_tokens or root, or a node's id, content, metadata or
\* token_count
C7_ThreeOutcomes ==
    LET RECURSIVE NodeLacks(_)
        NodeLacks(d) ==
            \/ "dict" \notin DOMAIN d
            \/ ~({"id", "content", "metadata", "token_count"} \subseteq DOMAIN d.dict)
            \/ /\ "children" \in DOMAIN d.dict
               /\ "list" \in DOMAIN d.dict.children
               /\ \E k \in DOMAIN d.dict.children.list : NodeLacks(d.dict.children.list[k])
        Lacks(d) ==
            /\ "dict" \in DOMAIN d
            /\ \/ ~({"document_name", "document_type", "total_tokens", "root"}
                       \subseteq DOMAIN d.dict)
               \/ NodeLacks(d.dict.root)
    IN  loaded # <<>> =>
            /\ ~fs[0].exists => loaded.result.exc = "FileNotFoundError"
            /\ fs[0].exists /\ fs[0].chunks < WriteChunks
                  => loaded.result.exc = "ValueError: Corrupt index file"
            /\ fs[0].exists /\ fs[0].chunks = WriteChunks /\ Lacks(fs[0].doc)
                  => loaded.result.exc = "ValueError: Invalid index structure"

-----------------------------------------------------------------------------
(* resolve_cross_references called on sections of an index.                *)

InitXref ==
    /\ AtRest("xref")
    /\ x_index \in SearchIndexes \cup {make_index(Rulebook, <<Sample.en, Sample.ca>>)}
    /\ x_sections \in
         LET found == {RetrievedSection(n, <<1, 1>>, x_index.document_name) :
                          n \in {walk(x_index.root)[i] : i \in 2..Len(walk(x_index.root))}}
         IN  UNION {[1..n -> found] : n \in 0..2}
    /\ x_max \in 0..(MaxSections + 1)
    /\ xpc = "call"
    /\ x_ret = <<>>

XrefCall ==
    /\ xpc = "call"
    /\ x_ret' = resolve_cross_references(x_sections, build_lookup(x_index),
                                         x_index.document_name, x_max)
    /\ xpc' = "returned"
    /\ UNCHANGED <<x_sections, x_index, x_max>>

NextXref == XrefCall /\ Frame("xref")

SpecXref == InitXref /\ [][NextXref]_vars

\* C10 as stated: the result is the input sections, then one section of
\* score 0.5 for each referenced number that is in the lookup and whose node
\* is not an input section, and no node id is repeated among the added
\* sections or between them and the input
C10_EveryReferenceAdded ==
    xpc = "returned" =>
        LET lookup == build_lookup(x_index)
            n == Len(x_sections)
            added == [k \in 1..(Len(x_ret) - n) |-> x_ret[n + k]]
            refs == UNION {{FindRefs(x_sections[i].node.content, 1)[k] :
                              k \in DOMAIN FindRefs(x_sections[i].node.content, 1)} :
                           i \in DOMAIN x_sections}
            wanted == {lookup[r].id : r \in refs \cap DOMAIN lookup}
                      \ {x_sections[i].node.id : i \in DOMAIN x_sections}
        IN  /\ Len(x_ret) >= n
            /\ \A i \in 1..n : x_ret[i] = x_sections[i]
            /\ \A k \in DOMAIN added : added[k].score = <<1, 2>>
            /\ {added[k].node.id : k \in DOMAIN added} = wanted
            /\ Cardinality(wanted) = Len(added)

\* C10: the result is the input sections, then sections of score 0.5 whose
\* nodes the lookup gives for numbers referenced in the input, none an input
\* section and none twice; when the result is shorter than max_sections
\* every referenced number in the lookup has its node in the result
C10_ReferencesUpToCap ==
    xpc = "returned" =>
        LET lookup == build_lookup(x_index)
            n == Len(x_sections)
            added == [k \in 1..(Len(x_ret) - n) |-> x_ret[n + k]]
            refs == UNION {{FindRefs(x_sections[i].node.content, 1)[k] :
                              k \in DOMAIN FindRefs(x_sections[i].node.content, 1)} :
                           i \in DOMAIN x_sections}
            wanted == {lookup[r].id : r \in refs \cap DOMAIN lookup}
                      \ {x_sections[i].node.id : i \in DOMAIN x_sections}
        IN  /\ Len(x_ret) >= n
            /\ \A i \in 1..n : x_ret[i] = x_sections[i]
            /\ \A k \in DOMAIN added :
                  /\ added[k].score = <<1, 2>>
                  /\ added[k].document_name = x_index.document_name
                  /\ \E r \in refs \cap DOMAIN lookup : added[k].node = lookup[r]
            /\ {added[k].node.id : k \in DOMAIN added} \subseteq wanted
            /\ Cardinality({added[k].node.id : k \in DOMAIN added}) = Len(added)
            /\ Len(x_ret) < x_max => {added[k].node.id : k \in DOMAIN added} = wanted

\* a section referencing two numbers of the lookup got both added, below the cap
C10_Witness ==
    /\ xpc = "returned"
    /\ Len(x_sections) = 1
    /\ Len(x_ret) = 3
    /\ x_max > 3

\* C11: for an input list of at most max_sections sections, the list
\* resolve_cross_references returns has at most max_sections entries
C11_AtMostMax ==
    xpc = "returned" /\ Len(x_sections) <= x_max => Len(x_ret) <= x_max

-----------------------------------------------------------------------------
(* search_multi (retriever.py): the per-document searches run as the       *)
(* actions of search above; the indexes mapping is the sequence of its     *)
(* <<key, index>> items in insertion order.                                *)

\* words matched at p with \s+ between them: the position after the last
\* word, 0 when they do not match (re.IGNORECASE)
RECURSIVE MatchWordsAt(_, _, _)
MatchWordsAt(s, p, words) ==
    LET e == p + Len(Head(words))
        next == SkipSpaces(s, e)
    IN  IF ~StartsWithAt(s, p, Head(words)) THEN 0
        ELSE IF Len(words) = 1 THEN e
        ELSE IF next = e THEN 0
        ELSE MatchWordsAt(s, next, Tail(words))

\* _CROSS_DOC_RE matched at p: <<start, end>> of the document name group,
\* <<0, 0>> when there is no match at p
CrossDocAt(s, p) ==
    LET as == {<<<<"a", "s">>, v, <<"i", "n">>>> :
                  v \in {<<"d", "e", "f", "i", "n", "e", "d">>,
                         <<"d", "e", "s", "c", "r", "i", "b", "e", "d">>,
                         <<"o", "u", "t", "l", "i", "n", "e", "d">>,
                         <<"s", "p", "e", "c", "i", "f", "i", "e", "d">>}}
        lead == as \cup {<<<<"s", "e", "e">>>>, <<<<"r", "e", "f", "e", "r">>, <<"t", "o">>>>}
        prefixes == lead \cup {l \o <<<<"t", "h", "e">>>> : l \in lead}
        names == {<<<<"r", "u", "l", "e", "b", "o", "o", "k">>>>,
                  <<<<"r", "u", "l", "e">>, <<"r", "e", "g", "u", "l", "a", "t", "i", "o", "n", "s">>>>,
                  <<<<"r", "u", "l", "e", "s">>, <<"r", "e", "g", "u", "l", "a", "t", "i", "o", "n", "s">>>>,
                  <<<<"r", "u", "l", "e">>, <<"a", "n", "d">>, <<"r", "e", "g", "u", "l", "a", "t", "i", "o", "n", "s">>>>,
                  <<<<"r", "u", "l", "e", "s">>, <<"a", "n", "d">>, <<"r", "e", "g", "u", "l", "a", "t", "i", "o", "n", "s">>>>,
                  <<<<"p", "e", "n", "a", "l", "t", "y">>, <<"g", "u", "i", "d", "e", "l", "i", "n", "e", "s">>>>,
                  <<<<"l", "e", "g", "a", "l">>, <<"c", "a", "r", "d">>, <<"l", "i", "s", "t">>>>,
                  <<<<"s", "t", "a", "n", "d", "a", "r", "d">>, <<"l", "i", "s", "t">>>>,
                  <<<<"s", "t", "a", "n", "d", "a", "r", "d">>, <<"l", "e", "g", "a", "l">>, <<"l", "i", "s", "t">>>>}
        \* the prefix ends in \s+, the name starts right after it
        NameStart(pre) ==
            LET e == MatchWordsAt(s, p, pre)
            IN  IF e = 0 \/ SkipSpaces(s, e) = e THEN 0 ELSE SkipSpaces(s, e)
        spans == {<<NameStart(pre), MatchWordsAt(s, NameStart(pre), nm)>> :
                     pre \in {q \in prefixes : NameStart(q) # 0}, nm \in names}
        hits == {sp \in spans : sp[2] # 0}
    IN  IF hits = {} THEN <<0, 0>> ELSE CHOOSE sp \in hits : TRUE

\* _CROSS_DOC_RE.findall(s), searching from position p
RECURSIVE FindDocs(_, _)
FindDocs(s, p) ==
    LET m == CrossDocAt(s, p)
    IN  IF p > Len(s) THEN <<>>
        ELSE IF m = <<0, 0>> THEN FindDocs(s, p + 1)
        ELSE <<SubSeq(s, m[1], m[2] - 1)>> \o FindDocs(s, m[2])

\* the document names _DOC_NAME_MAP gives
PenaltyGuidelines == <<"p", "e", "n", "a", "l", "t", "y", "_", "g", "u", "i", "d", "e", "l", "i", "n", "e", "s">>

\* _DOC_NAME_MAP, its keys as their words joined by single spaces
DocNameMap ==
    LET Joined(words) == IF Len(words) = 1 THEN words[1]
                         ELSE IF Len(words) = 2 THEN words[1] \o <<" ">> \o words[2]
                         ELSE words[1] \o <<" ">> \o words[2] \o <<" ">> \o words[3]
        rulebook == {<<<<"r", "u", "l", "e", "b", "o", "o", "k">>>>,
                     <<<<"r", "u", "l", "e">>, <<"a", "n", "d">>, <<"r", "e", "g", "u", "l", "a", "t", "i", "o", "n", "s">>>>,
                     <<<<"r", "u", "l", "e", "s">>, <<"a", "n", "d">>, <<"r", "e", "g", "u", "l", "a", "t", "i", "o", "n", "s">>>>,
                     <<<<"r", "u", "l", "e", "s">>, <<"r", "e", "g", "u", "l", "a", "t", "i", "o", "n", "s">>>>}
        penalty == {<<<<"p", "e", "n", "a", "l", "t", "y">>, <<"g", "u", "i", "d", "e", "l", "i", "n", "e", "s">>>>}
        legal == {<<<<"l", "e", "g", "a", "l">>, <<"c", "a", "r", "d">>, <<"l", "i", "s", "t">>>>, <<<<"s", "t", "a", "n", "d", "a", "r", "d">>, <<"l", "i", "s", "t">>>>,
                  <<<<"s", "t", "a", "n", "d", "a", "r", "d">>, <<"l", "e", "g", "a", "l">>, <<"l", "i", "s", "t">>>>}
    IN  [k \in {Joined(w) : w \in rulebook \cup penalty \cup legal} |->
            IF k \in {Joined(w) : w \in rulebook} THEN Rulebook
            ELSE IF k \in {Joined(w) : w \in penalty} THEN PenaltyGuidelines
            ELSE <<"l", "e", "g", "a", "l", "_", "c", "a", "r", "d", "_", "l", "i", "s", "t">>]

detect_cross_doc_references(sections) ==
    LET Referenced(rs) ==
            LET matches == FindDocs(rs.node.content, 1)
                keys == {Strip(Lower(matches[k])) : k \in DOMAIN matches}
            IN  {DocNameMap[key] : key \in keys \cap DOMAIN DocNameMap} \ {rs.document_name}
    IN  UNION {Referenced(sections[i]) : i \in DOMAIN sections}

search_by_card_names(card_names, index) ==
    LET names_lower == {Lower(card_names[i]) : i \in DOMAIN card_names}
        matching == SelectSeq(walk(index.root),
                              LAMBDA n : n.id # RootId /\ Lower(n.metadata.title) \in names_lower)
    IN  [i \in DOMAIN matching |-> RetrievedSection(matching[i], <<2, 1>>, index.document_name)]

\* the search variables when search is entered (pc = "search") or left
SetSearch(pc, query, index, max_sections) ==
    /\ spc' = pc
    /\ s_query' = query
    /\ s_index' = index
    /\ s_max' = max_sections
    /\ frontier' = IF pc = "search" THEN <<index.root>> ELSE <<>>
    /\ visited' = {}
    /\ results' = <<>>
    /\ exc' = "none"
    /\ ret' = <<>>
    /\ last_oracle' = NoOracle
    /\ fell_back' = FALSE
    /\ fallback_leaf' = FALSE
    /\ expanded' = <<>>
    /\ UNCHANGED use_llm

\* the indexes mappings search_multi is called with
MultiIndexes ==
    LET rules == make_index(Rulebook, <<Sample.en, Sample.re>>)
        penalty == make_index(PenaltyGuidelines,
                       <<Node(<<"1">>, <<"1">>, <<"P", "e", "n">>,
                              <<"s", "e", "e", " ", "t", "h", "e", " ", "r", "u", "l", "e", "b", "o", "o", "k">>, <<>>)>>)
        cards == make_index(<<"c", "a", "r", "d", "s">>, <<Sample.ca>>)
    IN  { <<>>,
          <<<<Rulebook, make_index(Rulebook, <<Sample.group, Sample.ca>>)>>>>,
          <<<<PenaltyGuidelines, penalty>>, <<Rulebook, rules>>>>,
          <<<<<<"c", "a", "r", "d", "_", "d", "b", "_", "p", "o", "k", "e", "m", "o", "n">>, cards>>, <<Rulebook, rules>>>>,
          <<<<Rulebook, [rules EXCEPT !.document_name = <<"r", "b">>]>>,
            <<PenaltyGuidelines, penalty>>>> }

InitMulti ==
    /\ AtRest("multi")
    /\ m_query \in { <<"e", "n">>, <<"z", "z">> }
    /\ m_indexes \in MultiIndexes
    /\ m_max \in 0..(MaxSections + 1)
    /\ m_weights \in { <<>>, (Rulebook :> <<1, 2>>),
                       (Rulebook :> <<-1, 1>>) @@ (PenaltyGuidelines :> <<2, 1>>) }
    /\ m_cards \in { <<>>, <<<<"C", "a">>>> }
    /\ use_llm \in BOOLEAN
    /\ mpc = "docs" /\ m_k = 1 /\ m_results = <<>> /\ all_results = <<>>
    /\ m_pending = {} /\ m_ret = <<>>
    /\ s_query = <<>> /\ s_index = <<>> /\ s_max = 0 /\ frontier = <<>> /\ visited = {}
    /\ results = <<>> /\ spc = "idle" /\ exc = "none" /\ ret = <<>>
    /\ last_oracle = NoOracle /\ fell_back = FALSE /\ fallback_leaf = FALSE
    /\ expanded = <<>>

\* for rs in results: rs.score *= weight
Weighted(sections, weight) ==
    [i \in DOMAIN sections |-> [sections[i] EXCEPT !.score = ScoreMul(@, weight)]]

\* the body of the loop over indexes.items() up to the call of search, or to
\* the end when the card names alone fill the document's share
MultiDoc ==
    /\ mpc = "docs" /\ spc = "idle" /\ m_k <= Len(m_indexes)
    /\ LET doc_name == m_indexes[m_k][1]
           index == m_indexes[m_k][2]
           per_doc == IF Len(m_indexes) > 0 THEN Max({3, m_max \div Len(m_indexes)})
                      ELSE m_max
           card_db_docs == {<<"c", "a", "r", "d", "_", "d", "b", "_", "p", "o", "k", "e", "m", "o", "n">>,
                            <<"c", "a", "r", "d", "_", "d", "b", "_", "t", "r", "a", "i", "n", "e", "r", "s">>,
                            <<"c", "a", "r", "d", "_", "d", "b", "_", "e", "n", "e", "r", "g", "y">>}
           direct == IF m_cards # <<>> /\ doc_name \in card_db_docs
                     THEN search_by_card_names(m_cards, index) ELSE <<>>
           weight == IF doc_name \in DOMAIN m_weights THEN m_weights[doc_name]
                     ELSE <<1, 1>>
       IN  IF m_cards # <<>> /\ doc_name \in card_db_docs /\ Len(direct) >= per_doc
           THEN /\ all_results' = all_results \o Weighted(direct, weight)
                /\ m_k' = m_k + 1
                /\ UNCHANGED <<m_results, searchVars>>
           ELSE /\ m_results' = direct
                /\ SetSearch("search", m_query, index, per_doc - Len(direct))
                /\ UNCHANGED <<all_results, m_k>>
    /\ UNCHANGED <<m_query, m_indexes, m_max, m_weights, m_cards, mpc, m_pending, m_ret>>

\* search has returned: the weight (0.7 for a cross-document extra) and
\* all_results.extend
MultiCollect ==
    /\ mpc \in {"docs", "cross"} /\ spc = "returned"
    /\ LET doc_name == m_indexes[m_k][1]
           weight == IF mpc = "cross" THEN <<7, 10>>
                     ELSE IF doc_name \in DOMAIN m_weights THEN m_weights[doc_name]
                     ELSE <<1, 1>>
       IN  all_results' = all_results \o Weighted(m_results \o ret, weight)
    /\ m_k' = IF mpc = "docs" THEN m_k + 1 ELSE m_k
    /\ m_results' = <<>>
    /\ SetSearch("idle", <<>>, <<>>, 0)
    /\ UNCHANGED <<m_query, m_indexes, m_max, m_weights, m_cards, mpc, m_pending, m_ret>>

\* after the loop: cross_refs, existing_docs, and the references the next
\* loop acts on (not in existing_docs and a key of indexes)
MultiDetect ==
    /\ mpc = "docs" /\ spc = "idle" /\ m_k > Len(m_indexes)
    /\ m_pending' = {r \in detect_cross_doc_references(all_results) :
                        /\ r \notin {all_results[i].document_name : i \in DOMAIN all_results}
                        /\ \E k \in DOMAIN m_indexes : m_indexes[k][1] = r}
    /\ mpc' = "cross"
    /\ m_k' = 1
    /\ UNCHANGED <<m_query, m_indexes, m_max, m_weights, m_cards, m_results, all_results,
                   m_ret, searchVars>>

\* for ref_doc in cross_refs (a set: any order): search(query, indexes[ref_doc], 3)
MultiCross ==
    /\ mpc = "cross" /\ spc = "idle"
    /\ \E r \in m_pending :
        /\ m_pending' = m_pending \ {r}
        /\ SetSearch("search", m_query,
                     m_indexes[CHOOSE k \in DOMAIN m_indexes : m_indexes[k][1] = r][2], 3)
    /\ UNCHANGED <<m_query, m_indexes, m_max, m_weights, m_cards, mpc, m_k, m_results,
                   all_results, m_ret>>

KeepAll(sections) == sections

\* the deduplication loop: the first section of each (document_name, node.id)
Unique(sections) ==
    LET firsts == {i \in DOMAIN sections :
                      \A j \in 1..(i - 1) :
                          <<sections[j].document_name, sections[j].node.id>>
                              # <<sections[i].document_name, sections[i].node.id>>}
    IN  [k \in 1..Cardinality(firsts) |->
            sections[CHOOSE i \in firsts : Cardinality({j \in firsts : j < i}) = k - 1]]

\* deduplicate, sort by -score, truncate, return
MultiMerge ==
    /\ mpc = "cross" /\ spc = "idle" /\ m_pending = {}
    /\ LET unique == Unique(all_results)
           keys == [i \in DOMAIN unique |-> unique[i].score]
       IN  m_ret' = SubSeq(SortDesc(unique, keys), 1,
                           IF Len(unique) < m_max THEN Len(unique) ELSE m_max)
    /\ mpc' = "returned"
    /\ UNCHANGED <<m_query, m_indexes, m_max, m_weights, m_cards, m_k, m_results,
                   all_results, m_pending, searchVars>>

\* an exception leaving search leaves search_multi
MultiRaise ==
    /\ mpc \in {"docs", "cross"} /\ spc = "raised"
    /\ mpc' = "raised"
    /\ UNCHANGED <<m_query, m_indexes, m_max, m_weights, m_cards, m_k, m_results,
                   all_results, m_pending, m_ret, searchVars>>

NextMulti ==
    \/ MultiDoc /\ Frame("multi")
    \/ MultiCollect /\ Frame("multi")
    \/ MultiDetect /\ Frame("multi")
    \/ MultiCross /\ Frame("multi")
    \/ MultiMerge /\ Frame("multi")
    \/ MultiRaise /\ Frame("multi")
    \/ NextSearch

SpecMulti == InitMulti /\ [][NextMulti]_vars

\* C8: the list search_multi returns holds at most one section per pair
\* (document_name, node id), and each one is the first section with its pair
\* in collection order
C8_FirstOfEachPair ==
    mpc = "returned" =>
        LET Pair(rs) == <<rs.document_name, rs.node.id>>
        IN  /\ \A i, j \in DOMAIN m_ret : i < j => Pair(m_ret[i]) # Pair(m_ret[j])
            /\ \A i \in DOMAIN m_ret :
                  \E f \in DOMAIN all_results :
                      /\ all_results[f] = m_ret[i]
                      /\ \A k \in 1..(f - 1) : Pair(all_results[k]) # Pair(m_ret[i])

\* a pair collected twice with different scores (a card name hit and the
\* search of the same document, or a cross-document extra) is in the result
C8_Witness ==
    /\ mpc = "returned"
    /\ \E i \in DOMAIN m_ret : \E k \in DOMAIN all_results :
          /\ all_results[k].document_name = m_ret[i].document_name
          /\ all_results[k].node.id = m_ret[i].node.id
          /\ all_results[k].score # m_ret[i].score

\* C9: the list search_multi returns is in non-increasing order of the final
\* scores and has at most max_sections entries
C9_SortedAndCapped ==
    mpc = "returned" =>
        /\ Len(m_ret) <= m_max
        /\ \A i, j \in DOMAIN m_ret : i < j => ~ScoreLess(m_ret[i].score, m_ret[j].score)

\* more sections were collected than max_sections, under document weights
\* and with a discounted cross-document extra among the returned ones
C9_Witness ==
    /\ mpc = "returned"
    /\ Len(all_results) > m_max
    /\ m_weights # <<>>
    /\ Len(m_ret) >= 2
    /\ ScoreLess(m_ret[Len(m_ret)].score, m_ret[1].score)
    /\ \E i \in DOMAIN m_ret : m_ret[i].score[2] = 10

\* C20: no name detect_cross_doc_references returns for the sections
\* search_multi has collected is the document_name of one of those sections
C20_NotRepresented ==
    mpc = "cross" =>
        \A r \in detect_cross_doc_references(all_results) :
            \A i \in DOMAIN all_results : all_results[i].document_name # r

-----------------------------------------------------------------------------
(* The router (router.py).  The card-name index is the list of the          *)
(* (name, document) items of card_name_index.json in file order, names      *)
(* lower-cased, non-empty and distinct as the ingestion writes them.        *)

\* a test that takes no character for alphanumeric
NeverAlnum(c) == FALSE

\* str.isalnum on one character
IsAlnum(c) == c \in LowerAZ \cup UpperAZ \cup Digits \cup {"é"}

\* str.find: the 0-based index of the first occurrence of w in text, or -1
Find(text, w) ==
    LET hits == {k \in 0..(Len(text) - Len(w)) : SubSeq(text, k + 1, k + Len(w)) = w}
    IN  IF hits = {} THEN -1 ELSE CHOOSE k \in hits : \A j \in hits : k <= j

\* an overlap test that lets every span through
OverlapsNothing(start, end, matched_ranges) == FALSE

\* lines 102-105: [start, end) overlaps a range already matched
Overlaps(start, end, matched_ranges) ==
    \E mr \in matched_ranges : ~(end <= mr[1] \/ start >= mr[2])

\* _detect_card_names over the index card_index: the (name, document) pairs
detect_card_names(query, index) ==
    LET q == Lower(query)
        sorted_names == SortDesc(index, [i \in DOMAIN index |-> <<Len(index[i][1]), 1>>])
        RECURSIVE Scan(_, _, _)
        Scan(k, matches, matched_ranges) ==
            IF k > Len(sorted_names) THEN matches
            ELSE LET Try(name, start) ==
                         LET end == start + Len(name)
                         IN  IF \/ start = -1
                                \/ start > 0 /\ IsAlnum(q[start])
                                \/ end < Len(q) /\ IsAlnum(q[end + 1])
                                \/ Overlaps(start, end, matched_ranges)
                             THEN Scan(k + 1, matches, matched_ranges)
                             ELSE Scan(k + 1, Append(matches, sorted_names[k]),
                                       matched_ranges \cup {<<start, end>>})
                 IN  Try(sorted_names[k][1], Find(q, sorted_names[k][1]))
    IN  IF index = <<>> THEN <<>> ELSE Scan(1, <<>>, {})

\* the card names and the queries of the detection tests with variations,
\* routing hints after the sample configuration, and the queries routed
RouterSample ==
    [cards |-> {<<<<"p", "i", "k", "a", "c", "h", "u", " ", "e", "x">>, "card_db_pokemon">>,
                <<<<"e", "x">>, "card_db_pokemon">>,
                <<<<"e", "x", " ", "p", "i", "k", "a", "c", "h", "u">>, "card_db_trainers">>,
                <<<<"p", "i", "k", "a", "c", "h", "u">>, "card_db_energy">>},
     queries |->
        {<<"p", "i", "k", "a", "c", "h", "u", " ", "e", "x", " ", "i", "s", " ", "s", "t", "r", "o", "n", "g">>,
         <<"h", "e", "x", " ", "m", "a", "n", "i", "a", "c">>,
         <<"P", "i", "k", "a", "c", "h", "u", " ", "E", "X", "!">>,
         <<"e", "x", " ", "p", "i", "k", "a", "c", "h", "u", " ", "e", "x">>,
         <<"p", "i", "k", "a", "c", "h", "u", " ", "e", "x", " ", "p", "i", "k", "a", "c", "h", "u">>,
         <<"e", "x", "2", " ", "o", "r", " ", "e", "x">>,
         <<"é", "x">>,
         <<>>,
         <<"w", "h", "a", "t", " ", "d", "o", "e", "s", " ", "e", "x", " ", "d", "o">>,
         <<"p", "i", "k", "a", "c", "h", "u">>},
     mew |-> <<<<"m", "e", "w">>, "card_db_pokemon">>,
     hints |->
        [rulebook |-> [name |-> "rulebook",
                       keywords |-> <<<<"r", "u", "l", "e">>, <<"a", "t", "t", "a", "c", "k">>, <<"r", "e", "t", "r", "e", "a", "t">>>>],
         penalty_guidelines |-> [name |-> "penalty_guidelines",
                                 keywords |-> <<<<"p", "e", "n", "a", "l", "t", "y">>, <<"W", "a", "r", "n", "i", "n", "g">>>>],
         legal_card_list |-> [name |-> "legal_card_list",
                              keywords |-> <<<<"l", "e", "g", "a", "l">>>>],
         card_db_pokemon |-> [name |-> "card_db_pokemon",
                              keywords |-> <<<<"c", "a", "r", "d">>, <<"a", "t", "t", "a", "c", "k">>>>],
         rulings_compendium |-> [name |-> "rulings_compendium",
                                 keywords |-> <<<<"r", "u", "l", "i", "n", "g">>>>]],
     asked |->
        {<<"p", "e", "n", "a", "l", "t", "y", " ", "f", "o", "r", " ", "s", "l", "o", "w", " ", "p", "l", "a", "y">>,
         <<"h", "o", "w", " ", "d", "o", "e", "s", " ", "p", "i", "k", "a", "c", "h", "u", " ", "e", "x", " ", "a", "t", "t", "a", "c", "k">>,
         <<"i", "s", " ", "t", "h", "i", "s", " ", "l", "e", "g", "a", "l">>,
         <<"H", "o", "w", " ", "d", "o", "e", "s", " ", "r", "e", "t", "r", "e", "a", "t", " ", "w", "o", "r", "k">>,
         <<"p", "i", "k", "a", "c", "h", "u", " ", "e", "x", " ", "a", "n", "d", " ", "m", "e", "w">>,
         <<"h", "e", "l", "l", "o">>}]

MaxCards == 3

\* the card-name indexes: up to MaxCards items with distinct names
CardIndexes ==
    {ix \in UNION {[1..n -> RouterSample.cards] : n \in 0..MaxCards} :
        \A i, j \in DOMAIN ix : i # j => ix[i][1] # ix[j][1]}

InitDetect ==
    /\ AtRest("router")
    /\ card_index \in CardIndexes
    /\ llm_cache = <<>>
    /\ calls = 0
    /\ r_call = <<>>
    /\ r_ret = <<>>

\* a call of _detect_card_names
NextDetect ==
    /\ \E query \in RouterSample.queries :
         /\ r_call' = [fn |-> "_detect_card_names", query |-> query]
         /\ r_ret' = detect_card_names(query, card_index)
    /\ UNCHANGED <<card_index, llm_cache, calls>>
    /\ Frame("router")

SpecDetect == InitDetect /\ [][NextDetect]_vars

\* C13: the spans the returned names were matched at are pairwise disjoint,
\* and a lookup name whose match lies inside the span of a longer returned
\* name is not returned
C13_LongestDisjoint ==
    r_call # <<>> /\ r_call.fn = "_detect_card_names" =>
        LET q == Lower(r_call.query)
            returned == {r_ret[i][1] : i \in DOMAIN r_ret}
            End(name) == Find(q, name) + Len(name)
        IN  /\ \A i, j \in DOMAIN r_ret :
                  i # j => \/ End(r_ret[i][1]) <= Find(q, r_ret[j][1])
                           \/ End(r_ret[j][1]) <= Find(q, r_ret[i][1])
            /\ \A long \in returned : \A k \in DOMAIN card_index :
                  (/\ Len(card_index[k][1]) < Len(long)
                   /\ Find(q, card_index[k][1]) >= Find(q, long)
                   /\ End(card_index[k][1]) <= End(long))
                  => card_index[k][1] \notin returned

\* "ex" comes before "pikachu ex" in the lookup, the query is the one of the
\* test, and only "pikachu ex" is returned
C13_Witness ==
    /\ r_call # <<>> /\ r_call.fn = "_detect_card_names"
    /\ r_call.query = <<"p", "i", "k", "a", "c", "h", "u", " ", "e", "x", " ", "i", "s", " ", "s", "t", "r", "o", "n", "g">>
    /\ Len(card_index) >= 2
    /\ card_index[1][1] = <<"e", "x">>
    /\ card_index[2][1] = <<"p", "i", "k", "a", "c", "h", "u", " ", "e", "x">>
    /\ Len(r_ret) = 1 /\ r_ret[1][1] = <<"p", "i", "k", "a", "c", "h", "u", " ", "e", "x">>

\* C14: every returned name was matched at a word boundary: in the lower-cased
\* query the character before the match and the character after it, when
\* there is one, is neither a letter nor a digit; a name all of whose
\* occurrences touch a letter or a digit is not returned
C14_WordBoundary ==
    r_call # <<>> /\ r_call.fn = "_detect_card_names" =>
        LET q == Lower(r_call.query)
            alnum == LowerAZ \cup Digits \cup {"é"}
            Inside(name, k) == \/ k > 0 /\ q[k] \in alnum
                               \/ k + Len(name) < Len(q) /\ q[k + Len(name) + 1] \in alnum
        IN  /\ \A i \in DOMAIN r_ret :
                  /\ Find(q, r_ret[i][1]) >= 0
                  /\ ~Inside(r_ret[i][1], Find(q, r_ret[i][1]))
            /\ \A n \in DOMAIN card_index :
                  (\A k \in 0..(Len(q) - Len(card_index[n][1])) :
                      SubSeq(q, k + 1, k + Len(card_index[n][1])) = card_index[n][1]
                         => Inside(card_index[n][1], k))
                  => \A i \in DOMAIN r_ret : r_ret[i][1] # card_index[n][1]

\* "ex" is in the lookup and occurs in the query, inside "hex" only, and
\* nothing is returned
C14_Witness ==
    /\ r_call # <<>> /\ r_call.fn = "_detect_card_names"
    /\ r_call.query = <<"h", "e", "x", " ", "m", "a", "n", "i", "a", "c">>
    /\ \E k \in DOMAIN card_index : card_index[k][1] = <<"e", "x">>
    /\ r_ret = <<>>

\* C29 as claimed: a lookup name is returned whenever the lower-cased query
\* has an occurrence of it, anywhere, that is at a word boundary and overlaps
\* the span of no other returned name at least as long.
C29_Complete ==
    r_call # <<>> /\ r_call.fn = "_detect_card_names" =>
        LET q == Lower(r_call.query)
            Boundary(k, len) == /\ ~(k > 0 /\ IsAlnum(q[k]))
                                /\ ~(k + len < Len(q) /\ IsAlnum(q[k + len + 1]))
            Free(k, name) ==
                \A i \in DOMAIN r_ret :
                    (r_ret[i][1] # name /\ Len(r_ret[i][1]) >= Len(name)) =>
                        \/ k + Len(name) <= Find(q, r_ret[i][1])
                        \/ k >= Find(q, r_ret[i][1]) + Len(r_ret[i][1])
        IN  \A n \in DOMAIN card_index :
                (\E k \in 0..(Len(q) - Len(card_index[n][1])) :
                    /\ SubSeq(q, k + 1, k + Len(card_index[n][1])) = card_index[n][1]
                    /\ Boundary(k, Len(card_index[n][1]))
                    /\ Free(k, card_index[n][1]))
                => \E i \in DOMAIN r_ret : r_ret[i] = card_index[n]

-----------------------------------------------------------------------------
(* _llm_classify and its cache.  The classification oracle is an external  *)
(* input: asked, it raises, answers a text, or answers without any content. *)

\* the five query types (valid_types, lines 211-217)
QueryType ==
    [rules_lookup |-> <<"r", "u", "l", "e", "s", "_", "l", "o", "o", "k", "u", "p">>,
     penalty |-> <<"p", "e", "n", "a", "l", "t", "y">>,
     format_legality |-> <<"f", "o", "r", "m", "a", "t", "_", "l", "e", "g", "a", "l", "i", "t", "y">>,
     card_specific |-> <<"c", "a", "r", "d", "_", "s", "p", "e", "c", "i", "f", "i", "c">>,
     card_interaction |-> <<"c", "a", "r", "d", "_", "i", "n", "t", "e", "r", "a", "c", "t", "i",
              "o", "n">>]

\* a check that takes every answer for a query type
EveryType(result) == TRUE

\* line 218: result in valid_types
ValidType(result) == \E t \in DOMAIN QueryType : QueryType[t] = result

ClassifyOutcomes ==
    {[kind |-> k, text |-> <<>>] :
        k \in {"AuthenticationError", "APIConnectionError", "APIStatusError", "Exception",
                "no content"}}
    \cup {[kind |-> "text", text |-> t] :
            t \in { <<"p", "e", "n", "a", "l", "t", "y">>,
                    <<" ", "R", "u", "l", "e", "s", "_", "L", "o", "o", "k", "u", "p", "\n">>,
                    <<"u", "n", "k", "n", "o", "w", "n", "_", "t", "y", "p", "e">>,
                    <<>> }}

\* lines 184-226: _llm_classify past the cache lookup; key: ANTHROPIC_API_KEY
\* is set; o: what the oracle does if asked.  Gives the exception leaving the
\* call (or "none"), the value returned (<<"None">>, which no string is, for
\* None), the cache afterwards, and whether the oracle was asked
llm_ask(query, model, cache, key, o) ==
    LET none == [exc |-> "none", value |-> <<"None">>, cache |-> cache, asked |-> key]
        Answer(result) ==
            IF ValidType(result)
            THEN [none EXCEPT
                    !.value = result,
                    !.cache = [k \in DOMAIN cache \cup {<<query, model>>} |->
                                  IF k = <<query, model>> THEN result ELSE cache[k]]]
            ELSE none
    IN  IF ~key THEN none
        ELSE IF o.kind = "text" THEN Answer(Lower(Strip(o.text)))
        ELSE IF o.kind = "no content" THEN [none EXCEPT !.exc = "IndexError"]
        ELSE IF o.kind \in {"APIConnectionError", "APIStatusError"} THEN none
        ELSE [none EXCEPT !.exc = o.kind]

\* a classification that never looks in the cache
AlwaysAsk(query, model, cache, key, o) == llm_ask(query, model, cache, key, o)

\* _llm_classify
llm_classify(query, model, cache, key, o) ==
    IF <<query, model>> \in DOMAIN cache
    THEN [exc |-> "none", value |-> cache[<<query, model>>], cache |-> cache,
          asked |-> FALSE]
    ELSE llm_ask(query, model, cache, key, o)

MaxCalls == 3

InitClassify ==
    /\ AtRest("router")
    /\ card_index = <<>>
    /\ llm_cache = [k \in {} |-> <<>>]
    /\ calls = 0
    /\ r_call = <<>>
    /\ r_ret = <<>>

\* a call of _llm_classify
NextClassify ==
    /\ calls < MaxCalls
    /\ \E query \in {<<"h", "o", "w", " ", "d", "o", "e", "s", " ", "r", "e", "t", "r", "e", "a", "t", " ", "w", "o", "r", "k">>, <<"a", "m", "b", "i", "g", "u", "o", "u", "s", " ", "q", "u", "e", "s", "t", "i", "o", "n">>}, model \in {"claude-haiku-4-5-20251001", "other"},
          key \in BOOLEAN, o \in ClassifyOutcomes :
         \E out \in {llm_classify(query, model, llm_cache, key, o)} :
            /\ r_call' = [fn |-> "_llm_classify", query |-> query, model |-> model,
                          key |-> key, oracle |-> o]
            /\ r_ret' = [exc |-> out.exc, value |-> out.value, asked |-> out.asked]
            /\ llm_cache' = out.cache
    /\ calls' = calls + 1
    /\ UNCHANGED card_index
    /\ Frame("router")

SpecClassify == InitClassify /\ [][NextClassify]_vars

\* C17: a call for a (query, model) pair the cache holds returns the cached
\* type without asking the oracle, whatever the oracle would do, and leaves the
\* entry as it is
C17_CachedAnswer ==
    [][\A k \in DOMAIN llm_cache :
          /\ llm_cache'[k] = llm_cache[k]
          /\ (r_call'.fn = "_llm_classify" /\ <<r_call'.query, r_call'.model>> = k)
                => /\ r_ret'.exc = "none"
                   /\ r_ret'.value = llm_cache[k]
                   /\ ~r_ret'.asked]_vars

\* a pair was cached, and a later call for it, made without an API key and
\* with an oracle that would fail, got the cached type
C17_Witness ==
    /\ calls >= 2
    /\ r_call.fn = "_llm_classify"
    /\ <<r_call.query, r_call.model>> \in DOMAIN llm_cache
    /\ ~r_ret.asked
    /\ r_ret.value = llm_cache[<<r_call.query, r_call.model>>]
    /\ r_call.oracle.kind = "AuthenticationError"
    /\ ~r_call.key

\* C18: a call for an uncached pair that fails (no API key, the oracle
\* unavailable or answering a service-status error, or a label that is none of
\* the five types) returns None and leaves the cache unchanged; a call for an
\* uncached pair with the key set asks the oracle; the cache holds only the
\* five types
C18_FailureNotCached ==
    [][/\ (/\ r_call'.fn = "_llm_classify"
           /\ <<r_call'.query, r_call'.model>> \notin DOMAIN llm_cache)
          => /\ (\/ ~r_call'.key
                 \/ r_call'.oracle.kind \in {"APIConnectionError", "APIStatusError"}
                 \/ /\ r_call'.oracle.kind = "text"
                    /\ Lower(Strip(r_call'.oracle.text))
                          \notin {QueryType[t] : t \in DOMAIN QueryType})
                => /\ llm_cache' = llm_cache
                   /\ r_ret'.exc = "none"
                   /\ r_ret'.value = <<"None">>
             /\ r_call'.key => r_ret'.asked
       /\ \A k \in DOMAIN llm_cache' :
             llm_cache'[k] \in {QueryType[t] : t \in DOMAIN QueryType}]_vars

\* with another pair cached, the oracle answered a label that is no type: None
\* came back and the pair is still not cached
C18_Witness ==
    /\ calls >= 2
    /\ r_call.fn = "_llm_classify"
    /\ r_call.key /\ r_ret.asked
    /\ r_call.oracle = [kind |-> "text", text |-> <<"u", "n", "k", "n", "o", "w", "n", "_", "t", "y", "p", "e">>]
    /\ r_ret.value = <<"None">>
    /\ llm_cache # [k \in {} |-> <<>>]
    /\ <<r_call.query, r_call.model>> \notin DOMAIN llm_cache

-----------------------------------------------------------------------------
(* route.  Scores are kept in tenths (0.5 is 5, 3.0 is 30) and the confidence *)
(* in hundredths; the config is the list of routing_hints items in their       *)
(* order, each a document name and its keywords.                               *)

\* _has_interaction_intent
has_interaction_intent(query) ==
    \E kw \in {<<"h", "o", "w", " ", "d", "o", "e", "s">>,
           <<"p", "l", "a", "y", " ", "o", "f", "f">>,
           <<"i", "n", "t", "e", "r", "a", "c", "t">>, <<"a", "f", "f", "e", "c", "t">>,
           <<"w", "o", "r", "k", " ", "w", "i", "t", "h">>,
           <<"w", "o", "r", "k", " ", "t", "o", "g", "e", "t", "h", "e", "r">>,
           <<"p", "r", "e", "v", "e", "n", "t">>, <<"b", "l", "o", "c", "k">>,
           <<"s", "t", "a", "c", "k">>, <<"c", "o", "m", "b", "o">>,
           <<"c", "o", "m", "b", "i", "n", "e", "d">>,
           <<"d", "o", "e", "s", " ", "i", "t">>,
           <<"o", "v", "e", "r", "r", "i", "d", "e">>, <<"n", "e", "g", "a", "t", "e">>} :
        Contains(kw, Lower(query))

\* classify, over the card-name index
classify(query, index) ==
    LET q == Lower(query)
        AnyOf(keywords) == \E kw \in keywords : Contains(kw, q)
        Cards(card_matches) ==
            IF card_matches # <<>> /\ has_interaction_intent(q)
            THEN QueryType.card_interaction
            ELSE IF Len(card_matches) >= 2 THEN QueryType.card_interaction
            ELSE QueryType.rules_lookup
    IN  IF AnyOf({<<"p", "e", "n", "a", "l", "t", "y">>,
           <<"i", "n", "f", "r", "a", "c", "t", "i", "o", "n">>,
           <<"m", "a", "r", "k", "e", "d", " ", "c", "a", "r", "d">>,
           <<"g", "a", "m", "e", " ", "l", "o", "s", "s">>,
           <<"w", "a", "r", "n", "i", "n", "g">>,
           <<"d", "i", "s", "q", "u", "a", "l", "i", "f">>,
           <<"s", "l", "o", "w", " ", "p", "l", "a", "y">>,
           <<"d", "e", "c", "k", " ", "e", "r", "r", "o", "r">>,
           <<"d", "r", "a", "w", "i", "n", "g", " ", "e", "x", "t", "r", "a">>,
           <<"u", "n", "s", "p", "o", "r", "t", "i", "n", "g">>,
           <<"c", "a", "u", "t", "i", "o", "n">>})
        THEN QueryType.penalty
        ELSE IF AnyOf({<<"l", "e", "g", "a", "l">>, <<"b", "a", "n", "n", "e", "d">>,
                <<"s", "t", "a", "n", "d", "a", "r", "d">>,
                <<"e", "x", "p", "a", "n", "d", "e", "d">>,
                <<"f", "o", "r", "m", "a", "t">>,
                <<"r", "o", "t", "a", "t", "i", "o", "n">>,
                <<"a", "l", "l", "o", "w", "e", "d">>,
                <<"p", "l", "a", "y", "a", "b", "l", "e">>})
        THEN QueryType.format_legality
        ELSE IF AnyOf({<<"e", "r", "r", "a", "t", "a">>,
                <<"c", "a", "r", "d", " ", "t", "e", "x", "t">>,
                <<"e", "r", "r", "a", "t", "a", "'", "d">>})
        THEN QueryType.card_specific
        ELSE Cards(detect_card_names(q, index))

\* _is_ambiguous, of the list of scores
is_ambiguous(scores) ==
    LET ranked == SortDesc(scores, [i \in DOMAIN scores |-> <<scores[i], 1>>])
    IN  \/ scores = <<>>
        \/ ranked[1] <= 10
        \/ Len(ranked) >= 2 /\ ranked[1] - ranked[2] <= 5

\* a quotient that is not divided
Undivided(top, total) == 100 * top

\* round(top / total, 2) in hundredths, total > 0: to the nearest, a tie to even
Round2(top, total) ==
    LET up == (200 * top + total) \div (2 * total)
    IN  IF (200 * top + total) % (2 * total) = 0 /\ up % 2 = 1 THEN up - 1 ELSE up

\* route over the card-name index and the classification cache; key and o as
\* for llm_ask.  Gives the exception leaving the call (or "none"), the
\* RouteDecision, the cache afterwards, whether the oracle was asked, and the
\* local scores (the final score of each document, in the config's order).
\* The reasoning is the list of its parts before they are formatted and joined
\* a table in which the judge's and the player's entries changed places
persona_bias_swapped(persona, doc_name) ==
    IF persona \in {"judge", "professor", "player"} /\ doc_name = "rulebook" THEN 5
    ELSE IF doc_name # "penalty_guidelines" THEN 0
    ELSE IF persona = "judge" THEN -5
    ELSE IF persona = "professor" THEN 3
    ELSE IF persona = "player" THEN 5
    ELSE 0

\* persona_bias.get(persona, {}).get(doc_name, 0), in tenths
persona_bias(persona, doc_name) ==
    IF persona \in {"judge", "professor", "player"} /\ doc_name = "rulebook" THEN 5
    ELSE IF doc_name # "penalty_guidelines" THEN 0
    ELSE IF persona = "judge" THEN 5
    ELSE IF persona = "professor" THEN 3
    ELSE IF persona = "player" THEN -5
    ELSE 0

route(query, config, persona, llm_flag, model, index, cache, key, o) ==
    LET q == Lower(query)
        Hits(keywords) ==
            Cardinality({i \in DOMAIN keywords : Contains(Lower(keywords[i]), q)})
        type_bias(query_type, doc_name) ==
            IF query_type = QueryType.penalty /\ doc_name = "penalty_guidelines" THEN 20
            ELSE IF query_type = QueryType.rules_lookup /\ doc_name = "rulebook" THEN 10
            ELSE IF query_type = QueryType.format_legality /\ doc_name = "legal_card_list"
            THEN 20
            ELSE IF query_type = QueryType.card_specific /\ doc_name = "rulebook" THEN 5
            ELSE IF query_type = QueryType.card_interaction /\ doc_name = "rulebook" THEN 10
            ELSE IF /\ query_type = QueryType.card_interaction
                    /\ doc_name = "rulings_compendium"
            THEN 15
            ELSE 0
        \* lines 322-354
        Decide(card_matches, llm_used, query_type, ranked) ==
            LET positive == SelectSeq(ranked, LAMBDA r : r.score > 0)
                max_score == IF ranked # <<>> THEN ranked[1].score ELSE 0
                fallback == SelectSeq(ranked, LAMBDA r : r.score = max_score)
                documents == IF positive # <<>> THEN positive ELSE fallback
                Sum[n \in 0..Len(ranked)] ==
                    IF n = 0 THEN 0
                    ELSE Sum[n - 1] + (IF ranked[n].score > 0 THEN ranked[n].score ELSE 0)
                total == IF Sum[Len(ranked)] = 0 THEN 10 ELSE Sum[Len(ranked)]
                card_names == [i \in DOMAIN card_matches |-> card_matches[i][1]]
            IN  [documents |-> [i \in DOMAIN documents |-> documents[i].name],
                 persona |-> persona,
                 confidence |->
                    IF Len(ranked) >= 2
                    THEN IF ranked[1].score >= total THEN 100
                         ELSE Round2(ranked[1].score, total)
                    ELSE 80,
                 reasoning |->
                    <<<<"query_type", query_type>>>>
                    \o (IF llm_used THEN <<<<"llm_classified">>>> ELSE <<>>)
                    \o (IF card_matches # <<>> THEN <<<<"cards_detected", card_names>>>>
                        ELSE <<>>)
                    \o [i \in DOMAIN positive |-> <<positive[i].name, positive[i].score>>],
                 card_names |-> card_names]
        \* lines 286-320
        Ranked(card_matches, llm_used, query_type, scores) ==
            [scores |-> scores,
             decision |->
                Decide(card_matches, llm_used, query_type,
                       SortDesc(scores, [i \in DOMAIN scores |-> <<scores[i].score, 1>>]))]
        Biased(card_matches, keyword_scores, llm_used, query_type) ==
            Ranked(card_matches, llm_used, query_type,
                   [i \in DOMAIN config |->
                       [name |-> config[i].name,
                        score |-> keyword_scores[i] + persona_bias(persona, config[i].name)
                                  + type_bias(query_type, config[i].name)]])
        \* lines 277-284, llm being what _llm_classify did
        Typed(card_matches, keyword_scores, llm) ==
            LET Returned(b) ==
                    [exc |-> "none", value |-> b.decision, cache |-> llm.cache,
                     asked |-> llm.asked, scores |-> b.scores]
            IN  IF llm.exc # "none"
                THEN [exc |-> llm.exc, value |-> <<>>, cache |-> llm.cache,
                      asked |-> llm.asked, scores |-> <<>>]
                ELSE IF llm.value \notin {<<"None">>, <<>>}
                THEN Returned(Biased(card_matches, keyword_scores, TRUE, llm.value))
                ELSE Returned(Biased(card_matches, keyword_scores, FALSE,
                                     classify(query, index)))
        \* lines 280-281
        Asked(card_matches, keyword_scores) ==
            Typed(card_matches, keyword_scores,
                  IF llm_flag /\ is_ambiguous(keyword_scores)
                  THEN llm_classify(query, model, cache, key, o)
                  ELSE [exc |-> "none", value |-> <<"None">>, cache |-> cache,
                        asked |-> FALSE])
        \* lines 255-274
        Scored(card_matches, intent) ==
            Asked(card_matches,
                  [i \in DOMAIN config |->
                      10 * Hits(config[i].keywords)
                      + (IF \E m \in DOMAIN card_matches :
                               card_matches[m][2] = config[i].name
                         THEN 30 ELSE 0)
                      + (IF intent /\ config[i].name = "rulebook" THEN 10 ELSE 0)
                      + (IF intent /\ config[i].name = "rulings_compendium" THEN 20
                         ELSE 0)])
        Matched(card_matches) ==
            Scored(card_matches, card_matches # <<>> /\ has_interaction_intent(query))
    IN  Matched(detect_card_names(query, index))

\* the process before a route call: the card-name index loaded, and the
\* classification cache empty or holding an earlier success
InitRoute ==
    /\ AtRest("router")
    /\ card_index \in {<<>>, <<RouterSample.mew, <<<<"p", "i", "k", "a", "c", "h", "u", " ", "e", "x">>, "card_db_pokemon">>>>}
    /\ llm_cache \in {[k \in {} |-> <<>>],
                       [k \in {<<<<"h", "e", "l", "l", "o">>, "claude-haiku-4-5-20251001">>} |->
                           QueryType.penalty]}
    /\ calls = 0
    /\ r_call = <<>>
    /\ r_ret = <<>>

\* a call of route
NextRoute ==
    /\ calls = 0
    /\ \E query \in RouterSample.asked,
          config \in LET h == RouterSample.hints
                     IN  {<<>>, <<h.penalty_guidelines>>,
                          <<h.rulebook, h.penalty_guidelines>>,
                          <<h.penalty_guidelines, h.rulebook>>,
                          <<h.rulebook, h.penalty_guidelines, h.legal_card_list,
                            h.card_db_pokemon, h.rulings_compendium>>},
          persona \in {"judge", "professor", "player", "coach"},
          llm_flag \in BOOLEAN, key \in BOOLEAN, o \in ClassifyOutcomes :
         \E out \in {route(query, config, persona, llm_flag, "claude-haiku-4-5-20251001",
                            card_index, llm_cache, key, o)} :
            /\ r_call' = [fn |-> "route", query |-> query, config |-> config,
                          persona |-> persona, use_llm |-> llm_flag,
                          model |-> "claude-haiku-4-5-20251001", key |-> key,
                          oracle |-> o]
            /\ r_ret' = [exc |-> out.exc, value |-> out.value, asked |-> out.asked,
                         scores |-> out.scores]
            /\ llm_cache' = out.cache
    /\ calls' = 1
    /\ UNCHANGED card_index
    /\ Frame("router")

SpecRoute == InitRoute /\ [][NextRoute]_vars

\* C15: the confidence of every RouteDecision route returns lies in [0.0, 1.0]
C15_ConfidenceBounds ==
    (r_call # <<>> /\ r_call.fn = "route" /\ r_ret.exc = "none")
        => r_ret.value.confidence >= 0 /\ r_ret.value.confidence <= 100

\* a player's query without any hit: penalty_guidelines ends at -0.5, rulebook
\* is the one document returned, and the confidence is 1.0
C15_Witness ==
    /\ r_call # <<>> /\ r_call.fn = "route" /\ r_ret.exc = "none"
    /\ r_call.persona = "player"
    /\ Len(r_call.config) = 2
    /\ \E i \in DOMAIN r_ret.scores : r_ret.scores[i].score < 0
    /\ r_ret.value.documents = <<"rulebook">>
    /\ r_ret.value.confidence = 100

\* C16: the documents returned are exactly the configured documents with a
\* final score > 0, or, when there is none, exactly those with the maximum
\* score; they are ordered by final score descending; the list is empty only
\* when the config has no documents
C16_DocumentsRanked ==
    (r_call # <<>> /\ r_call.fn = "route" /\ r_ret.exc = "none") =>
        LET docs == r_ret.value.documents
            sc == r_ret.scores
            Score(name) == sc[CHOOSE i \in DOMAIN sc : sc[i].name = name].score
            positive == {sc[i].name : i \in {k \in DOMAIN sc : sc[k].score > 0}}
            top == {sc[i].name : i \in {k \in DOMAIN sc :
                                            \A j \in DOMAIN sc : sc[j].score <= sc[k].score}}
        IN  /\ {sc[i].name : i \in DOMAIN sc}
                  = {r_call.config[i].name : i \in DOMAIN r_call.config}
            /\ \A i, j \in DOMAIN docs : i # j => docs[i] # docs[j]
            /\ {docs[i] : i \in DOMAIN docs} = IF positive # {} THEN positive ELSE top
            /\ \A i, j \in DOMAIN docs : i < j => Score(docs[i]) >= Score(docs[j])
            /\ docs = <<>> <=> r_call.config = <<>>

\* penalty_guidelines comes first in the config and second in the result; and
\* a config of the one document penalty_guidelines, at -0.5, returns it
C16_Witness ==
    /\ r_call # <<>> /\ r_call.fn = "route" /\ r_ret.exc = "none"
    /\ \/ /\ Len(r_call.config) = 2
          /\ r_call.config[1].name = "penalty_guidelines"
          /\ r_ret.value.documents = <<"rulebook", "penalty_guidelines">>
       \/ /\ Len(r_call.config) = 1
          /\ r_ret.scores[1].score < 0
          /\ r_ret.value.documents = <<"penalty_guidelines">>

\* C19: when the oracle is unavailable, answers a service-status error, a
\* label outside the valid set or an empty response, route returns a
\* RouteDecision; it raises only the oracle's authentication failure
C19_OnlyAuthRaises ==
    (r_call # <<>> /\ r_call.fn = "route" /\ r_call.oracle.kind # "Exception") =>
        \/ r_ret.exc = "none"
        \/ r_ret.exc = "AuthenticationError" /\ r_call.oracle.kind = "AuthenticationError"

\* C25: after a judge's call, the same call made for a player (same query,
\* config, flag, model and oracle behaviour, in the same process) does not
\* rank penalty_guidelines better: when both document lists hold it, its
\* position in the player's list is not smaller, and the other documents are
\* the same in both lists, in the same order.
C25_PlayerNotBetter ==
    (r_call # <<>> /\ r_call.fn = "route" /\ r_call.persona = "judge"
     /\ r_ret.exc = "none") =>
        LET player == route(r_call.query, r_call.config, "player", r_call.use_llm,
                            r_call.model, card_index, llm_cache, r_call.key,
                            r_call.oracle)
            Compared(judge_docs, player_docs) ==
                LET Pos(docs) == CHOOSE i \in DOMAIN docs : docs[i] = "penalty_guidelines"
                    Others(docs) == SelectSeq(docs, LAMBDA d : d # "penalty_guidelines")
                IN  (/\ \E i \in DOMAIN judge_docs : judge_docs[i] = "penalty_guidelines"
                     /\ \E i \in DOMAIN player_docs : player_docs[i] = "penalty_guidelines")
                    => /\ Pos(player_docs) >= Pos(judge_docs)
                       /\ Others(player_docs) = Others(judge_docs)
        IN  player.exc = "none"
            /\ Compared(r_ret.value.documents, player.value.documents)

\* the judge's list has penalty_guidelines before rulebook, and the player's
\* list for the same call has it after
C25_Witness ==
    /\ r_call # <<>> /\ r_call.fn = "route" /\ r_call.persona = "judge"
    /\ r_ret.exc = "none"
    /\ r_ret.value.documents = <<"penalty_guidelines", "rulebook">>
    /\ route(r_call.query, r_call.config, "player", r_call.use_llm, r_call.model,
             card_index, llm_cache, r_call.key, r_call.oracle).value.documents
         = <<"rulebook", "penalty_guidelines">>

-----------------------------------------------------------------------------
(* ingest (cli.py), step 2: for each document, reuse the persisted index   *)
(* when its source_hash is the hash of the intermediate markdown, else     *)
(* index_document, set source_hash, save_tree.  index_document runs as in  *)
(* SpecIndex; save_tree is one step here (it replaces the file or raises   *)
(* and leaves it).                                                         *)

\* file_hash: the SHA-256 hex digest of the file's text, modelled by a digest
\* with few values, so that different texts can have the same one
file_hash(lines) == Decimal(Len(JoinLines(lines)) % 4)

\* a run over two documents whose intermediate markdown exists; each has no
\* index file, a complete one with the markdown's hash or another hash, a
\* truncated one, one without total_tokens, one without root, or one nested
\* too deep for json.loads
InitIngest ==
    /\ AtRest("ingest")
    /\ md = <<>> /\ ixpos = 0 /\ nodes = <<>> /\ stack = <<>> /\ current_node = 0
    /\ content_parts = <<>> /\ seen_ids = {} /\ ixpc = "idle" /\ total_tokens = 0
    /\ g_force \in BOOLEAN
    /\ g_k = 1
    /\ gpc = "loop"
    /\ g_exc = "none"
    /\ g_docs \in
         LET texts == { <<<<"#", " ", "R", "o", "o", "t">>>>,
                        <<<<"#", "#", " ", "A", " ", "b">>>>,
                        <<<<"#", " ", "R", "o", "o", "t">>, <<"g", "o">>>> }
             Saved(h) == FileOf([make_index(Rulebook, <<Sample.en, Sample.re>>)
                                    EXCEPT !.source_hash = h], 0)
             Files(text) ==
                 { [exists |-> FALSE],
                   Saved(file_hash(text)),
                   Saved(<<"a", "b">>),
                   [Saved(file_hash(text)) EXCEPT !.chunks = 1],
                   [Saved(file_hash(text)) EXCEPT !.doc = Without(@, <<"total_tokens">>)],
                   [Saved(file_hash(text)) EXCEPT !.doc = Without(@, <<"root">>)],
                   [exists |-> TRUE, doc |-> [list |-> <<>>], chunks |-> WriteChunks,
                    by |-> 0, nested |-> TRUE] }
             Docs == UNION {{[md |-> text, before |-> f, index |-> f, did |-> "nothing"] :
                                f \in Files(text)} : text \in texts}
         IN  [1..2 -> Docs]

\* lines 188-199: the persisted index is loaded and compared; the document is
\* skipped, or index_document is entered, or load_tree's exception leaves ingest
IngestCheck ==
    /\ gpc = "loop" /\ ixpc = "idle" /\ g_k <= Len(g_docs)
    /\ LET d == g_docs[g_k]
           Enter(did) ==
               /\ g_docs' = [g_docs EXCEPT ![g_k].did = did]
               /\ md' = d.md
               /\ ixpos' = 0
               /\ nodes' = <<TreeNode(<<"r", "o", "o", "t">>, <<>>,
                                      NodeMetadata("RULEBOOK", <<>>, <<"d", "o", "c">>))>>
               /\ stack' = <<<<0, 1>>>>
               /\ current_node' = 1
               /\ content_parts' = <<>>
               /\ seen_ids' = {}
               /\ ixpc' = "loop"
               /\ UNCHANGED <<total_tokens, g_k, gpc, g_exc>>
           Loaded(existing) ==
               IF existing.exc = "none" /\ existing.value.source_hash = file_hash(d.md)
               THEN /\ g_docs' = [g_docs EXCEPT ![g_k].did = "up to date"]
                    /\ g_k' = g_k + 1
                    /\ UNCHANGED <<md, ixpos, nodes, stack, current_node, content_parts,
                                   seen_ids, ixpc, total_tokens, gpc, g_exc>>
               ELSE IF existing.exc = "none" THEN Enter("indexing")
               ELSE IF existing.exc \in {"ValueError", "ValueError: Corrupt index file",
                                         "ValueError: Invalid index structure", "KeyError"}
               THEN Enter("warned, indexing")
               ELSE /\ gpc' = "raised"
                    /\ g_exc' = existing.exc
                    /\ UNCHANGED <<md, ixpos, nodes, stack, current_node, content_parts,
                                   seen_ids, ixpc, total_tokens, g_docs, g_k>>
       IN  IF ~g_force /\ d.index.exists THEN Loaded(load_tree(d.index))
           ELSE Enter("indexing")
    /\ UNCHANGED g_force

\* lines 201-204: index_document has returned; source_hash is set and
\* save_tree replaces the index file, or raises and leaves it as it was
IngestSave ==
    /\ gpc = "loop" /\ ixpc = "done"
    /\ \/ /\ g_docs' = [g_docs EXCEPT
                            ![g_k].index =
                                FileOf([document_name |-> Rulebook,
                                        document_type |-> "RULEBOOK",
                                        root |-> ArenaTree(nodes, 1),
                                        total_tokens |-> total_tokens,
                                        source_hash |-> file_hash(g_docs[g_k].md)], 0),
                            ![g_k].did = IF @ = "indexing" THEN "indexed"
                                         ELSE "warned, indexed"]
          /\ g_k' = g_k + 1
          /\ UNCHANGED <<gpc, g_exc>>
       \/ /\ gpc' = "raised"
          /\ g_exc' = "OSError in save_tree"
          /\ UNCHANGED <<g_docs, g_k>>
    /\ md' = <<>> /\ ixpos' = 0 /\ nodes' = <<>> /\ stack' = <<>> /\ current_node' = 0
    /\ content_parts' = <<>> /\ seen_ids' = {} /\ ixpc' = "idle" /\ total_tokens' = 0
    /\ UNCHANGED g_force

\* the loop over the documents is over
IngestEnd ==
    /\ gpc = "loop" /\ g_k > Len(g_docs)
    /\ gpc' = "done"
    /\ UNCHANGED <<md, ixpos, nodes, stack, current_node, content_parts, seen_ids, ixpc,
                   total_tokens, g_docs, g_force, g_k, g_exc>>

NextIngest ==
    \/ IngestCheck /\ Frame("ingest")
    \/ IndexHeading /\ Frame("ingest") /\ UNCHANGED <<g_docs, g_force, g_k, gpc, g_exc>>
    \/ IndexBody /\ Frame("ingest") /\ UNCHANGED <<g_docs, g_force, g_k, gpc, g_exc>>
    \/ IndexFinish /\ Frame("ingest") /\ UNCHANGED <<g_docs, g_force, g_k, gpc, g_exc>>
    \/ IngestSave /\ Frame("ingest")
    \/ IngestEnd /\ Frame("ingest")

SpecIngest == InitIngest /\ [][NextIngest]_vars

\* C21 as claimed: without --force a document whose index file loads with the
\* hash of its markdown keeps that file as it was; every other document that
\* ingest has dealt with was indexed again and its file now loads with the
\* markdown's hash; and no index file, whatever it holds, makes load_tree's
\* failure end the run.
C21_ReuseOrRebuild ==
    /\ \A k \in DOMAIN g_docs :
         LET d == g_docs[k]
             Same(before) == /\ ~g_force /\ before.exc = "none"
                             /\ before.value.source_hash = file_hash(d.md)
             Rebuilt(now) == /\ d.did \in {"indexed", "warned, indexed"}
                             /\ now.exc = "none"
                             /\ now.value.source_hash = file_hash(d.md)
         IN  (k < g_k) =>
                IF Same(load_tree(d.before))
                THEN d.index = d.before /\ d.did = "up to date"
                ELSE Rebuilt(load_tree(d.index))
    /\ gpc = "raised" => g_exc = "OSError in save_tree"

-----------------------------------------------------------------------------
(* Errata overlay (overlay.py).  A manifest is the sequence of the items   *)
(* of card_errata, <<key, errata list>>, in the dict's order; an erratum   *)
(* is a record of its card_name, old_text and new_text.                    *)

ErrataMax == 3

ErrataTextMax == 150

\* a lookup that keeps every erratum of a matching key
lookup_every_erratum(manifest, query) ==
    LET RECURSIVE Items(_)
        Items(k) ==
            IF k > Len(manifest) THEN <<>>
            ELSE (IF Contains(manifest[k][1], Lower(query)) THEN manifest[k][2] ELSE <<>>)
                 \o Items(k + 1)
    IN  Items(1)

\* lookup_card_errata: the errata of the keys found in the lower-cased query,
\* the first one of each card_name
lookup_card_errata(manifest, query) ==
    LET q_lower == Lower(query)
        RECURSIVE Errata(_, _, _)
        RECURSIVE Items(_, _)
        Errata(errata_list, j, found) ==
            IF j > Len(errata_list) THEN found
            ELSE IF \E r \in DOMAIN found : found[r].card_name = errata_list[j].card_name
            THEN Errata(errata_list, j + 1, found)
            ELSE Errata(errata_list, j + 1, Append(found, errata_list[j]))
        Items(k, found) ==
            IF k > Len(manifest) THEN found
            ELSE IF Contains(manifest[k][1], q_lower)
            THEN Items(k + 1, Errata(manifest[k][2], 1, found))
            ELSE Items(k + 1, found)
    IN  Items(1, <<>>)

\* annotate_sections: the list returned (the sections given, annotated)
annotate_sections(sections, manifest, query) ==
    LET Annotated(card_errata) ==
            LET first == Take(card_errata, ErrataMax)
                errata_context ==
                    [i \in DOMAIN first |->
                        first[i].card_name \o <<":", " ", "O", "L", "D", ":", " ">>
                        \o Take(first[i].old_text, ErrataTextMax)
                        \o <<" ", "→", " ", "N", "E", "W", ":", " ">>
                        \o Take(first[i].new_text, ErrataTextMax)]
            IN  IF card_errata = <<>> THEN sections
                ELSE [i \in DOMAIN sections |->
                         IF sections[i].node.metadata.document_type = "CARD_DATABASE"
                         THEN [sections[i] EXCEPT !.errata_context = errata_context]
                         ELSE sections[i]]
    IN  IF query = <<>> THEN sections
        ELSE Annotated(lookup_card_errata(manifest, query))

\* the sections, manifests and queries annotate_sections is called with:
\* card-database and rulebook sections with and without an earlier errata
\* context; manifests of no key, one key, keys sharing a card name, more
\* than ErrataMax names, a key without errata, a key in upper case, a text
\* longer than ErrataTextMax
InitAnnotate ==
    /\ AtRest("overlay")
    /\ opc = "call"
    /\ o_ret = <<>>
    /\ o_query \in { <<>>, <<" ">>, <<"P", "i", "k", "a", "c", "h", "u", " ", "E", "X", " ", "a", "t", "t", "a", "c", "k">>,
                      <<"h", "o", "w", " ", "d", "o", "e", "s", " ", "r", "e", "t", "r", "e", "a", "t", " ", "w", "o", "r", "k">> }
    /\ o_sections \in
         LET card == [Sample.ca EXCEPT !.metadata.document_type = "CARD_DATABASE"]
             One == { RetrievedSection(card, <<1, 1>>, <<"c", "a", "r", "d", "s">>),
                      RetrievedSection(Sample.en, <<1, 2>>, Rulebook),
                      [RetrievedSection(card, <<1, 1>>, <<"c", "a", "r", "d", "s">>)
                          EXCEPT !.errata_context = <<<<"o", "l", "d">>>>],
                      [RetrievedSection(Sample.re, <<1, 1>>, Rulebook)
                          EXCEPT !.errata_context = <<<<"o", "l", "d">>>>] }
         IN  UNION {[1..n -> One] : n \in 0..2}
    /\ o_manifest \in
         LET E(name, old, new) == [card_name |-> name, old_text |-> old, new_text |-> new]
             long == [i \in 1..(ErrataTextMax + 1) |-> "a"]
             pika == E(<<"P", "i", "k", "a", "c", "h", "u">>, <<"o", "1">>, <<"n", "1">>)
             pika2 == E(<<"P", "i", "k", "a", "c", "h", "u">>, <<"o", "2">>, <<"n", "2">>)
             ex == E(<<"e", "x">>, long, <<>>)
             both == E(<<"P", "i", "k", "a", "c", "h", "u", " ", "e", "x">>, <<"o">>, long)
             any == E(<<"A", "n", "y">>, <<"o">>, <<"n">>)
         IN  { <<>>,
               <<<<<<"p", "i", "k", "a", "c", "h", "u">>, <<pika>>>>>>,
               <<<<<<"p", "i", "k", "a", "c", "h", "u">>, <<pika, pika2>>>>>>,
               <<<<<<"p", "i", "k", "a", "c", "h", "u">>, <<pika>>>>, <<<<"e", "x">>, <<pika2, ex>>>>>>,
               <<<<<<"p", "i", "k", "a", "c", "h", "u">>, <<pika>>>>, <<<<"e", "x">>, <<ex>>>>,
                 <<<<"p", "i", "k", "a", "c", "h", "u", " ", "e", "x">>, <<both>>>>, <<<<>>, <<any>>>>>>,
               <<<<<<"e", "x">>, <<>>>>>>,
               <<<<<<"P", "i", "k", "a", "c", "h", "u">>, <<pika>>>>>> }

\* a call of annotate_sections
NextAnnotate ==
    /\ opc = "call"
    /\ o_ret' = annotate_sections(o_sections, o_manifest, o_query)
    /\ opc' = "returned"
    /\ UNCHANGED <<o_sections, o_manifest, o_query>>
    /\ Frame("overlay")

SpecAnnotate == InitAnnotate /\ [][NextAnnotate]_vars

\* C22: the list returned has the sections given, in their order, with
\* nothing changed but errata_context.  A section's errata_context is changed
\* only if the section is of type card_database, the query is not empty and a
\* manifest key is a substring of the lower-cased query; when errata are
\* found every card_database section gets the same list, which has at most
\* ErrataMax entries, each made of an erratum of a matching key, with no card
\* name twice.
C22_OnlyErrataContext ==
    opc = "returned" =>
        LET matching == {k \in DOMAIN o_manifest :
                            Contains(o_manifest[k][1], Lower(o_query))}
            found == UNION {{o_manifest[k][2][j].card_name : j \in DOMAIN o_manifest[k][2]} :
                               k \in matching}
            Entry(e) == e.card_name \o <<":", " ", "O", "L", "D", ":", " ">>
                        \o Take(e.old_text, ErrataTextMax)
                        \o <<" ", "→", " ", "N", "E", "W", ":", " ">>
                        \o Take(e.new_text, ErrataTextMax)
            FromErrata(context) ==
                \E names \in [DOMAIN context -> found] :
                    /\ \A i, j \in DOMAIN context : names[i] = names[j] => i = j
                    /\ \A i \in DOMAIN context :
                          \E k \in matching : \E j \in DOMAIN o_manifest[k][2] :
                              /\ o_manifest[k][2][j].card_name = names[i]
                              /\ context[i] = Entry(o_manifest[k][2][j])
        IN  /\ Len(o_ret) = Len(o_sections)
            /\ \A i \in DOMAIN o_ret :
                  /\ [o_ret[i] EXCEPT !.errata_context = <<>>]
                        = [o_sections[i] EXCEPT !.errata_context = <<>>]
                  /\ o_ret[i].errata_context # o_sections[i].errata_context
                        => /\ o_ret[i].node.metadata.document_type = "CARD_DATABASE"
                           /\ o_query # <<>> /\ matching # {}
                  /\ (/\ o_ret[i].node.metadata.document_type = "CARD_DATABASE"
                      /\ o_query # <<>> /\ found # {})
                        => /\ Len(o_ret[i].errata_context)
                                = IF Cardinality(found) < ErrataMax
                                  THEN Cardinality(found) ELSE ErrataMax
                           /\ FromErrata(o_ret[i].errata_context)
                           /\ \A j \in DOMAIN o_ret :
                                 o_ret[j].node.metadata.document_type = "CARD_DATABASE"
                                    => o_ret[j].errata_context = o_ret[i].errata_context

\* four card names are found and three are kept, one text is cut at
\* ErrataTextMax; a card-database section loses its earlier context and the
\* rulebook section next to it keeps its own
C22_Witness ==
    /\ opc = "returned"
    /\ Len(o_manifest) = 4
    /\ o_query = <<"P", "i", "k", "a", "c", "h", "u", " ", "E", "X", " ", "a", "t", "t", "a", "c", "k">>
    /\ Len(o_ret) = 2
    /\ o_sections[1].errata_context = <<<<"o", "l", "d">>>>
    /\ o_sections[1].node.metadata.document_type = "CARD_DATABASE"
    /\ Len(o_ret[1].errata_context) = ErrataMax
    /\ Len(o_ret[1].errata_context[2]) = 2 + 7 + ErrataTextMax + 8
    /\ o_ret[2].node.metadata.document_type = "RULEBOOK"
    /\ o_ret[2].errata_context = <<<<"o", "l", "d">>>>

-----------------------------------------------------------------------------
(* The card-name index cache (router.py, lines 56-71) under the server's   *)
(* worker threads (server.py, line 101: asyncio.to_thread(route, ...)).    *)
(* card_name_index.json is replaced as a whole; version v of the file has  *)
(* the modification time v and a mapping of its own, version 0 is the      *)
(* missing file (mtime 0.0, mapping {}).  The function takes no lock, so   *)
(* the threads interleave between its statements.                          *)

MaxVersions == 2

NumThreads == 2

ThreadCalls == 2

\* what _load_card_name_index returns for version v of the file
load_card_name_index(v) ==
    IF v = 0 THEN <<>> ELSE <<<<<<"c", "a", "r", "d">> \o Decimal(v), "card_db_pokemon">>>>

InitCache ==
    /\ AtRest("cache")
    /\ index_file \in {0, 1}
    /\ card_name_index = <<"None">>
    /\ card_name_index_mtime = 0
    /\ tpc = [t \in (1..NumThreads) |-> "idle"]
    /\ current_mtime = [t \in (1..NumThreads) |-> 0]
    /\ loaded_index = [t \in (1..NumThreads) |-> <<>>]
    /\ finished = [t \in (1..NumThreads) |-> 0]

\* the file is replaced by its next version
ReplaceFile ==
    /\ index_file < MaxVersions
    /\ index_file' = index_file + 1
    /\ UNCHANGED <<card_name_index, card_name_index_mtime, tpc, current_mtime,
                   loaded_index, finished>>
    /\ Frame("cache")

\* lines 64-67: a thread enters the function and reads the file's mtime
CacheStat(t) ==
    /\ tpc[t] = "idle"
    /\ finished[t] < ThreadCalls
    /\ current_mtime' = [current_mtime EXCEPT ![t] = index_file]
    /\ tpc' = [tpc EXCEPT ![t] = "test"]
    /\ UNCHANGED <<index_file, card_name_index, card_name_index_mtime, loaded_index,
                   finished>>
    /\ Frame("cache")

\* line 68: the test of the two globals
CacheTest(t) ==
    /\ tpc[t] = "test"
    /\ tpc' = [tpc EXCEPT ![t] =
                  IF \/ card_name_index = <<"None">>
                     \/ current_mtime[t] # card_name_index_mtime
                  THEN "load" ELSE "return"]
    /\ UNCHANGED <<index_file, card_name_index, card_name_index_mtime, current_mtime,
                   loaded_index, finished>>
    /\ Frame("cache")

\* line 69, right-hand side: _load_card_name_index() reads the file
CacheLoad(t) ==
    /\ tpc[t] = "load"
    /\ loaded_index' = [loaded_index EXCEPT ![t] = load_card_name_index(index_file)]
    /\ tpc' = [tpc EXCEPT ![t] = "store_index"]
    /\ UNCHANGED <<index_file, card_name_index, card_name_index_mtime, current_mtime,
                   finished>>
    /\ Frame("cache")

\* lines 69 and 70: the two assignments to the globals, one after the other
CacheStore(t) ==
    /\ \/ /\ tpc[t] = "store_index"
          /\ card_name_index' = loaded_index[t]
          /\ tpc' = [tpc EXCEPT ![t] = "store_mtime"]
          /\ UNCHANGED card_name_index_mtime
       \/ /\ tpc[t] = "store_mtime"
          /\ card_name_index_mtime' = current_mtime[t]
          /\ tpc' = [tpc EXCEPT ![t] = "return"]
          /\ UNCHANGED card_name_index
    /\ UNCHANGED <<index_file, current_mtime, loaded_index, finished>>
    /\ Frame("cache")

\* line 71: return _card_name_index
CacheReturn(t) ==
    /\ tpc[t] = "return"
    /\ tpc' = [tpc EXCEPT ![t] = "idle"]
    /\ finished' = [finished EXCEPT ![t] = @ + 1]
    /\ UNCHANGED <<index_file, card_name_index, card_name_index_mtime, current_mtime,
                   loaded_index>>
    /\ Frame("cache")

NextCache ==
    \/ ReplaceFile
    \/ \E t \in (1..NumThreads) : CacheStat(t)
    \/ \E t \in (1..NumThreads) : CacheTest(t)
    \/ \E t \in (1..NumThreads) : CacheLoad(t)
    \/ \E t \in (1..NumThreads) : CacheStore(t)
    \/ \E t \in (1..NumThreads) : CacheReturn(t)

SpecCache == InitCache /\ [][NextCache]_vars

\* C27: when every call has returned, a call made next, with the file as it
\* is now, returns the mapping of the file as it is now: either the recorded
\* mtime differs from the file's and the mapping is loaded again, or the
\* cached mapping is the current one.
C27_CacheConsistent ==
    (/\ \A t \in (1..NumThreads) : tpc[t] = "idle"
     /\ \E t \in (1..NumThreads) : finished[t] > 0)
        => (card_name_index_mtime = index_file
                => card_name_index = load_card_name_index(index_file))

-----------------------------------------------------------------------------
(* The thread-to-async bridge (server.py, lines 187-223).  The producer    *)
(* runs in an executor thread; the consumer is the async generator and its *)
(* caller, which run on the event loop.  call_soon_threadsafe appends a    *)
(* callback to the loop's ready list, and the loop runs the callbacks in   *)
(* the order they were scheduled, each one a queue.put_nowait.  A          *)
(* generator is the items it yields and how it ends; "exc" stands for the  *)
(* exception it raises, "_DONE" for the sentinel.                          *)

MaxItems == 3

\* the loop running its newest callback first
EventLoopNewestFirst ==
    /\ callbacks # <<>>
    /\ queue' = Append(queue, callbacks[Len(callbacks)])
    /\ callbacks' = SubSeq(callbacks, 1, Len(callbacks) - 1)
    /\ UNCHANGED <<sync_gen, gen_pos, ppc, item, cancel, cpc, got, delivered>>
    /\ Frame("bridge")

\* lines 195-198 and 212: a new queue, the event clear, the producer
\* submitted to the executor, the consumer at its first queue.get()
InitBridge ==
    /\ AtRest("bridge")
    /\ sync_gen \in {[items |-> SubSeq(<<"a", "b", "c">>, 1, n), raises |-> r] :
                        n \in 0..MaxItems, r \in BOOLEAN}
    /\ gen_pos = 0
    /\ ppc = "next"
    /\ item = ""
    /\ callbacks = <<>>
    /\ queue = <<>>
    /\ cancel = FALSE
    /\ cpc = "get"
    /\ got = <<>>
    /\ delivered = <<>>

\* _producer, lines 200-210, one statement at a time
Producer ==
    /\ \/ /\ ppc = "next"                       \* for item in sync_gen
          /\ IF gen_pos < Len(sync_gen.items)
             THEN /\ item' = sync_gen.items[gen_pos + 1]
                  /\ gen_pos' = gen_pos + 1
                  /\ ppc' = "check"
             ELSE /\ ppc' = IF sync_gen.raises THEN "except" ELSE "finally"
                  /\ UNCHANGED <<item, gen_pos>>
          /\ UNCHANGED callbacks
       \/ /\ ppc = "check"                      \* if cancel.is_set(): break
          /\ ppc' = IF cancel THEN "finally" ELSE "put"
          /\ UNCHANGED <<item, gen_pos, callbacks>>
       \/ /\ ppc = "put"                        \* call_soon_threadsafe(put_nowait, item)
          /\ callbacks' = Append(callbacks, item)
          /\ ppc' = "next"
          /\ UNCHANGED <<item, gen_pos>>
       \/ /\ ppc = "except"                     \* if not cancel.is_set()
          /\ ppc' = IF cancel THEN "finally" ELSE "put_exc"
          /\ UNCHANGED <<item, gen_pos, callbacks>>
       \/ /\ ppc = "put_exc"                    \* call_soon_threadsafe(put_nowait, exc)
          /\ callbacks' = Append(callbacks, "exc")
          /\ ppc' = "finally"
          /\ UNCHANGED <<item, gen_pos>>
       \/ /\ ppc = "finally"                    \* call_soon_threadsafe(put_nowait, _DONE)
          /\ callbacks' = Append(callbacks, "_DONE")
          /\ ppc' = "done"
          /\ UNCHANGED <<item, gen_pos>>
    /\ UNCHANGED <<sync_gen, queue, cancel, cpc, got, delivered>>
    /\ Frame("bridge")

\* the event loop runs the oldest scheduled callback: queue.put_nowait
EventLoop ==
    /\ callbacks # <<>>
    /\ queue' = Append(queue, Head(callbacks))
    /\ callbacks' = Tail(callbacks)
    /\ UNCHANGED <<sync_gen, gen_pos, ppc, item, cancel, cpc, got, delivered>>
    /\ Frame("bridge")

\* the async generator and its caller, lines 213-223: from one suspension
\* to the next.  The caller stops iterating by closing the generator at
\* its yield or by being cancelled while it waits; either runs the finally
\* clause of line 222.
Consumer ==
    /\ \/ /\ cpc = "get" /\ queue # <<>>        \* item = await queue.get()
          /\ queue' = Tail(queue)
          /\ got' = Append(got, Head(queue))
          /\ IF Head(queue) = "_DONE"
             THEN cpc' = "await_fut" /\ cancel' = TRUE /\ UNCHANGED delivered
             ELSE IF Head(queue) = "exc"
             THEN cpc' = "raised" /\ cancel' = TRUE /\ UNCHANGED delivered
             ELSE /\ cpc' = "yielded"
                  /\ delivered' = Append(delivered, Head(queue))
                  /\ UNCHANGED cancel
       \/ /\ cpc = "yielded"                    \* the caller asks for the next item
          /\ cpc' = "get"
          /\ UNCHANGED <<queue, got, cancel, delivered>>
       \/ /\ cpc = "await_fut" /\ ppc = "done"  \* await fut
          /\ cpc' = "finished"
          /\ UNCHANGED <<queue, got, cancel, delivered>>
       \/ /\ cpc \in {"get", "yielded"}         \* the caller stops iterating
          /\ cpc' = "closed"
          /\ cancel' = TRUE
          /\ UNCHANGED <<queue, got, delivered>>
    /\ UNCHANGED <<sync_gen, gen_pos, ppc, item, callbacks>>
    /\ Frame("bridge")

NextBridge == Producer \/ EventLoop \/ Consumer

SpecBridge == InitBridge /\ [][NextBridge]_vars

\* the executor runs the producer, the loop runs its callbacks, and the
\* caller either goes on iterating or stops; stopping is never forced
SpecBridgeLive ==
    /\ SpecBridge
    /\ WF_vars(Producer)
    /\ WF_vars(EventLoop)
    /\ WF_vars(Consumer /\ cpc' # "closed")

\* C30: the consumer is given the generator's items in production order,
\* all of them when it iterates to the end; the sentinel is put exactly once
\* and after everything else on every path of the producer; the generator's
\* exception reaches the consumer after all the items before it; a consumer
\* that has stopped has set the cancel event, and a producer that finds the
\* event set puts nothing but the sentinel from then on; the producer and
\* the consumer both come to an end.
C30_BridgeDelivers ==
    /\ [](LET stream == got \o queue \o callbacks
              IsPrefix(a, b) == Len(a) <= Len(b) /\ a = SubSeq(b, 1, Len(a))
              Sentinels == {i \in DOMAIN stream : stream[i] = "_DONE"}
          IN  /\ IsPrefix(delivered, sync_gen.items)
              /\ IsPrefix(SelectSeq(stream, LAMBDA x : x \notin {"_DONE", "exc"}),
                          sync_gen.items)
              /\ Sentinels \subseteq {Len(stream)}
              /\ ppc = "done" => Sentinels = {Len(stream)}
              /\ ppc # "done" => Sentinels = {}
              /\ cpc \in {"await_fut", "finished"}
                    => delivered = sync_gen.items /\ ~sync_gen.raises
              /\ cpc = "raised" => delivered = sync_gen.items /\ sync_gen.raises
              /\ (sync_gen.raises /\ "exc" \in {got[i] : i \in DOMAIN got})
                    => cpc = "raised"
              /\ cpc \in {"await_fut", "finished", "raised", "closed"} => cancel)
    /\ [][LET stream == got \o queue \o callbacks
              stream_after == got' \o queue' \o callbacks'
          IN  /\ (cancel /\ ppc \in {"check", "except"}) => stream_after = stream
              /\ (cancel /\ ppc \in {"check", "except"} /\ ppc' # ppc)
                    => ppc' = "finally"
              /\ ppc = "finally" => stream_after \in {stream, Append(stream, "_DONE")}
              /\ ppc = "done" => stream_after = stream]_vars
    /\ <>(ppc = "done" /\ callbacks = <<>>)
    /\ <>(cpc \in {"finished", "raised", "closed"})

\* the consumer stopped after the first of three items; the producer found
\* the event set when it had the second item, put only the sentinel and ended
C30_Witness ==
    /\ Len(sync_gen.items) = 3
    /\ cpc = "closed"
    /\ cancel
    /\ delivered = <<"a">>
    /\ ppc = "done"
    /\ gen_pos = 2
    /\ got \o queue \o callbacks = <<"a", "_DONE">>

====
